---- MODULE Spec2Model ----
(***************************************************************************)
(* Model of the single-pass bytecode compiler (Compiler.cpp,               *)
(* FunctionInfo.h, ByteCodeBlock.cpp) and of the stack virtual machine     *)
(* (VirtualMachine.cpp/.h, Function.h, Value.cpp).                         *)
(*                                                                         *)
(* The compiler is a recursive-descent parser; it is modelled by operators *)
(* that thread a compile-state record c through the handlers, one operator *)
(* per handler.  A thrown CompilerError is the field c.err; every operator *)
(* is a no-op on a state that already carries an error, which is how the   *)
(* exception unwinds.  The machine is modelled with one action per opcode. *)
(***************************************************************************)
EXTENDS Integers, Sequences, FiniteSets, TLC

VARIABLES
  phase,     \* "idle" | "compiling" | "compiled" | "running"
  comp,      \* state of the Compiler object of the current Interpret call
  main,      \* Function returned by Compiler::Compile
  frames,    \* VirtualMachine::frames_
  stack,     \* VirtualMachine::stack_
  names,     \* VirtualMachine::names_
  globals,   \* VirtualMachine::globals_
  output,    \* VirtualMachine::output_ (sequence of lines)
  result,    \* what the last Interpret call gave back to the embedding
  prog,      \* index of the source handed to the current Interpret call
  runs,      \* number of Interpret calls made on this machine
  hist       \* observation record (not program state), see HistInit

vars == <<phase, comp, main, frames, stack, names, globals, output, result,
          prog, runs, hist>>

(***************************************************************************)
(* Bounds                                                                  *)
(***************************************************************************)
MaxRuns == 1

(***************************************************************************)
(* Sequence helpers                                                        *)
(***************************************************************************)
Last(s) == s[Len(s)]
Front(s) == SubSeq(s, 1, Len(s) - 1)
Take(s, n) == SubSeq(s, 1, n)
SetAt(s, i, v) == [s EXCEPT ![i] = v]
RECURSIVE Repeat(_, _)
Repeat(s, n) == IF n = 0 THEN <<>> ELSE s \o Repeat(s, n - 1)
\* first position >= i of s holding v, or 0
IndexOf(s, v, i) ==
  LET First(hits) == IF hits = {} THEN 0
                     ELSE CHOOSE k \in hits : \A j \in hits : k <= j
  IN First({k \in i..Len(s) : s[k] = v})

(***************************************************************************)
(* OpCode (ByteCodeBlock.h)                                                *)
(***************************************************************************)
OpConstant == 0
OpTrue == 1
OpFalse == 2
OpEmpty == 3
OpPop == 4
OpGetLocal == 5
OpGetGlobal == 6
OpSetLocal == 7
OpDefineGlobal == 8
OpSetGlobal == 9
OpGetUpvalue == 10
OpSetUpvalue == 11
OpIsEqual == 12
OpGreater == 13
OpLess == 14
OpAdd == 15
OpSubtract == 16
OpMultiply == 17
OpDivide == 18
OpModulus == 19
OpNegate == 20
OpNot == 21
OpPrint == 22
OpJump == 23
OpJumpIfFalse == 24
OpLoop == 25
OpCall == 26
OpClosure == 27
OpReturn == 28

(***************************************************************************)
(* Precedence (Compiler.h)                                                 *)
(***************************************************************************)
PrecNone == 0
PrecAssignment == 1
PrecOr == 2
PrecAnd == 3
PrecEquality == 4
PrecComparison == 5
PrecAdd == 6
PrecMult == 7
PrecUnary == 8
PrecCall == 9
PrecPrimary == 10

(***************************************************************************)
(* Tokens (Token.h).  A lexeme is a string, except that the lexeme of a    *)
(* Number token is kept as its sequence of digit characters so that the    *)
(* literal conversion can be computed.                                     *)
(***************************************************************************)
Tok(type, lexeme) == [type |-> type, lexeme |-> lexeme]
DefaultToken == Tok("Invalid", "")     \* Token() : type_ = Invalid, empty lexeme

(***************************************************************************)
(* Values (Value.h): std::variant<string,int64,char,bool,Function,         *)
(* NativeFunction,Closure>.  One record shape per alternative.             *)
(***************************************************************************)
IntV(n) == [t |-> "Int", i |-> n]
BoolV(b) == [t |-> "Bool", b |-> b]
StrV(s) == [t |-> "Str", s |-> s]
CharV(n) == [t |-> "Char", ch |-> n]
NativeV(name, argCount) == [t |-> "NativeFunc", name |-> name, argCount |-> argCount]

\* std::shared_ptr<Value> of Closure::upvalues_: null, or a cell holding a Value
NullCell == [null |-> TRUE]
Cell(v) == [null |-> FALSE, val |-> v]

\* Function::Function : fresh ByteCodeBlock, empty name, zero counts
NewFunction(blockId) ==
  [block |-> blockId, name |-> "", paramCount |-> 0, upvalueCount |-> 0]

\* Closure::Closure( Function ) : upvalues_( func.GetUpvalueCount() ) null cells
NewClosure(func) ==
  [func |-> func, upvalues |-> [i \in 1..func.upvalueCount |-> NullCell]]
ClosureV(closure) == [t |-> "Closure", c |-> closure]

DigitVal(d) ==
  CASE d = "0" -> 0 [] d = "1" -> 1 [] d = "2" -> 2 [] d = "3" -> 3
    [] d = "4" -> 4 [] d = "5" -> 5 [] d = "6" -> 6 [] d = "7" -> 7
    [] d = "8" -> 8 [] d = "9" -> 9
\* the digits of a Number lexeme, kept to the 32 bits of an int, as two
\* halves of 16 bits <<high, low>>
RECURSIVE IntHalves(_)
IntHalves(ds) ==
  IF ds = <<>> THEN <<0, 0>>
  ELSE LET h == IntHalves(Front(ds))
           low == 10 * h[2] + DigitVal(Last(ds))
           high == 10 * h[1] + (low \div 65536)
       IN <<high % 65536, low % 65536>>

\* Util::ToNum<int> on the digits of a Number lexeme : the result is an int,
\* so of a lexeme beyond INT_MAX only the 32 low bits come back
ToNum(ds) ==
  LET h == IntHalves(ds)
  IN IF h[1] >= 32768 THEN (h[1] - 65536) * 65536 + h[2] ELSE h[1] * 65536 + h[2]

\* Value::ToString
ValueToString(v) ==
  CASE v.t = "Str" -> v.s
    [] v.t = "Int" -> ToString(v.i)
    [] v.t = "Bool" -> IF v.b THEN "true" ELSE "false"
    [] v.t = "NativeFunc" -> v.name
    [] v.t = "Closure" -> v.c.func.name

\* Value::ToInt (Int, Char and Bool alternatives; a Str operand is not numeric
\* here)
ValueToInt(v) ==
  CASE v.t = "Int" -> v.i
    [] v.t = "Char" -> v.ch
    [] v.t = "Bool" -> IF v.b THEN 1 ELSE 0
    [] OTHER -> 0

\* static_cast<char>( int64_t ) : the low 8 bits, as a signed char
ToChar8(n) == ((n + 128) % 256) - 128

\* Value::ToChar (Int, Char and Bool alternatives) ; '1' is 49 and '0' is 48
ValueToChar(v) ==
  CASE v.t = "Int" -> ToChar8(v.i)
    [] v.t = "Char" -> v.ch
    [] v.t = "Bool" -> IF v.b THEN 49 ELSE 48
    [] OTHER -> 0

\* Value::IsTrue
IsTrue(v) ==
  CASE v.t = "Str" -> v.s # ""
    [] v.t = "Int" -> v.i # 0
    [] v.t = "Bool" -> v.b
    [] OTHER -> FALSE

(***************************************************************************)
(* ByteCodeBlock                                                           *)
(***************************************************************************)
NewBlock == [code |-> <<>>, constants |-> <<>>]
kMaxConstants == 255

(***************************************************************************)
(* FunctionInfo (FunctionInfo.h)                                           *)
(***************************************************************************)
kMaxLocals == 16
kMaxUpvaluesInfo == 16
kMaxParams == 32
kMaxUpvalues == 32

\* a local that counts as initialized from its declaration on
InitializedLocal(token, depth) == [token |-> token, depth |-> depth, isInitialized |-> TRUE]

\* Local::Local( token, depth ) : isInitialized_ is false
MkLocal(token, depth) == [token |-> token, depth |-> depth, isInitialized |-> FALSE]

\* FunctionInfo::FunctionInfo : slot zero is reserved
NewFunctionInfo(blockId) ==
  [function |-> NewFunction(blockId),
   functionType |-> "Script",
   upValues |-> <<>>,
   locals |-> <<MkLocal(DefaultToken, 0)>>,
   localCount |-> 1,
   scopeDepth |-> 0]

(***************************************************************************)
(* Compile state.  tokens/curr/prev are lexer_.GetTokens(), currToken_ and *)
(* prevToken_ (positions, Len+1 = end()); compStack is compStack_ (the     *)
(* FunctionInfo objects themselves, innermost last); blocks is the heap of *)
(* ByteCodeBlock objects the Functions point to; err is the CompilerError  *)
(* in flight ("" = none); ret is the value a handler returns.              *)
(* Observation fields (not compiler state): stalled, scopeMarks, scopeLog, *)
(* jumpLog, circuitLog, paramLog, functionLog (the locals_ of every        *)
(* FunctionInfo at the moment it leaves compStack_), closureLog (where the *)
(* Closure instructions emitted by FunctionCall begin and end).            *)
(***************************************************************************)
NoErr == ""
Ok(c) == c.err = NoErr
Throw(c, msg) == IF c.err = NoErr THEN [c EXCEPT !.err = msg] ELSE c
Ret(c, v) == IF c.err = NoErr THEN [c EXCEPT !.ret = v] ELSE c

\* Compiler::Compiler : compStack_.push_back( &root_ ).  heap holds the
\* ByteCodeBlocks that earlier compilations left alive.
NewCompiler(tokens, heap) ==
  [tokens |-> tokens, curr |-> 1, prev |-> 0,
   compStack |-> <<NewFunctionInfo(Len(heap) + 1)>>,
   blocks |-> Append(heap, NewBlock),
   err |-> NoErr, ret |-> 0,
   stalled |-> FALSE, scopeMarks |-> <<>>, scopeLog |-> <<>>, jumpLog |-> {},
   circuitLog |-> {}, paramLog |-> {}, functionLog |-> {}, closureLog |-> {},
   ifLog |-> {}, forLog |-> {}, boundaryLog |-> {}, resolveLog |-> {}]

GetScopeCount(c) == Len(c.compStack)
\* Compiler::GetC( i ) : i = 0 is the current function, 1 the enclosing one
GetCAt(c, i) == c.compStack[Len(c.compStack) - i]
GetC(c) == GetCAt(c, 0)
SetCAt(c, i, fi) == [c EXCEPT !.compStack[Len(c.compStack) - i] = fi]
SetC(c, fi) == SetCAt(c, 0, fi)

GetCurrentByteCodeBlock(c) == c.blocks[GetC(c).function.block]
GetSize(c) == Len(GetCurrentByteCodeBlock(c).code)

TokenAt(c, i) == IF i \in DOMAIN c.tokens THEN c.tokens[i] ELSE DefaultToken
CurrToken(c) == TokenAt(c, c.curr)
PrevToken(c) == TokenAt(c, c.prev)

\* Compiler::Advance
Advance(c) ==
  IF c.err # NoErr THEN c
  ELSE [c EXCEPT !.prev = c.curr,
                 !.curr = IF c.curr # Len(c.tokens) + 1 THEN c.curr + 1 ELSE c.curr]

\* Compiler::Check
Check(c, tokenType) == CurrToken(c).type = tokenType

\* Compiler::Match : the test, and the state after it
Matches(c, tokenTypes) == c.err = NoErr /\ CurrToken(c).type \in tokenTypes
Match(c, tokenTypes) == IF Matches(c, tokenTypes) THEN Advance(c) ELSE c

\* Compiler::Consume
Consume(c, tokenType, errMsg) ==
  IF c.err # NoErr THEN c
  ELSE IF CurrToken(c).type = tokenType THEN Advance(c)
  ELSE Throw(c, errMsg)

\* ByteCodeBlock::Append via Compiler::EmitByte
EmitByte(c, byte) ==
  IF c.err # NoErr THEN c
  ELSE LET b == GetC(c).function.block
       IN [c EXCEPT !.blocks[b].code = Append(@, byte)]

\* Compiler::EmitBytes
EmitBytes(c, first, second) ==
  IF c.err # NoErr THEN c
  ELSE [c EXCEPT !.blocks[GetC(c).function.block].code = @ \o <<first, second>>]

\* AddConstant without the search for an equal constant
AddConstantAlways(c, constant) ==
  IF c.err # NoErr THEN c
  ELSE LET b == GetC(c).function.block
           constants == c.blocks[b].constants
           c1 == [c EXCEPT !.blocks[b].constants = Append(@, constant)]
       IN IF Len(constants) + 1 >= kMaxConstants
            THEN Throw(c1, "Exceeded maximum number of constants")
            ELSE Ret(c1, Len(constants))

\* ByteCodeBlock::AddConstant : c.ret is the index of the constant
AddConstant(c, constant) ==
  IF c.err # NoErr THEN c
  ELSE LET b == GetC(c).function.block
           constants == c.blocks[b].constants
           it == IndexOf(constants, constant, 1)
       IN IF it # 0 THEN Ret(c, it - 1)
          ELSE LET c1 == [c EXCEPT !.blocks[b].constants = Append(@, constant)]
               IN IF Len(constants) + 1 >= kMaxConstants
                    THEN Throw(c1, "Exceeded maximum number of constants")
                    ELSE Ret(c1, Len(constants))

\* Compiler::MakeConstant
MakeConstant(c, value) == AddConstant(c, value)

\* Compiler::EmitConstant
EmitConstant(c, value) ==
  LET c1 == MakeConstant(c, value) IN EmitBytes(c1, OpConstant, c1.ret)

\* Compiler::IdentifierConstant
IdentifierConstant(c, identifierName) == MakeConstant(c, StrV(identifierName))

\* Compiler::EmitReturn
EmitReturn(c) == EmitBytes(c, OpEmpty, OpReturn)

kMaxJump == 65535

\* Compiler::EmitLoop
EmitLoop(c, loopStart) ==
  IF c.err # NoErr THEN c
  ELSE LET c1 == EmitByte(c, OpLoop)
           offset == (GetSize(c1) - loopStart) + 2
       IN IF offset > kMaxJump THEN Throw(c1, "Loop body too large")
          ELSE LET c2 == EmitBytes(c1, (offset \div 256) % 256, offset % 256)
               IN [c2 EXCEPT !.jumpLog = @ \cup
                     {[block |-> GetC(c).function.block, operand |-> GetSize(c1),
                       target |-> loopStart, kind |-> "Loop"]}]

\* Compiler::EmitJump : c.ret is the offset of the placeholder
EmitJump(c, opCode) ==
  IF c.err # NoErr THEN c
  ELSE LET c1 == EmitBytes(EmitByte(c, opCode), 255, 255)
       IN Ret(c1, GetSize(c1) - 2)

\* Compiler::PatchJump
PatchJump(c, offset) ==
  IF c.err # NoErr THEN c
  ELSE LET b == GetC(c).function.block
           jumpBytes == GetSize(c) - offset - 2
       IN IF jumpBytes > kMaxJump THEN Throw(c, "Too much code to jump over")
          ELSE [c EXCEPT
                 !.blocks[b].code =
                    SetAt(SetAt(@, offset + 1, (jumpBytes \div 256) % 256),
                          offset + 2, jumpBytes % 256),
                 !.jumpLog = @ \cup
                    {[block |-> b, operand |-> offset,
                      target |-> GetSize(c), kind |-> "Jump"]}]

(***************************************************************************)
(* FunctionInfo operations on the current function                         *)
(***************************************************************************)
kMaxLocalDepth == 127
kMaxUpvalueIndex == 127

\* a duplicate check that finds nothing
NeverDuplicate(fi, name, i) == FALSE

\* the reverse scan of FunctionInfo::AddLocal, from position i down: the scan
\* reaches position k when no local from k to i ends it, and stops with a
\* duplicate when the local at k has the name
HasDuplicate(fi, name, i) ==
  LET EndsScan(j) == fi.locals[j].isInitialized /\ fi.locals[j].depth < fi.scopeDepth
  IN \E k \in 1..i : /\ \A j \in k..i : ~EndsScan(j)
                     /\ name = fi.locals[k].token.lexeme

\* an AddLocal without the test of localCount_ against kMaxLocals
AddLocalUnchecked(c, token) ==
  IF c.err # NoErr THEN c
  ELSE LET fi == GetC(c)
       IN IF HasDuplicate(fi, token.lexeme, Len(fi.locals))
            THEN Throw(c, "Already a variable with this name in scope")
          ELSE SetC(c, [fi EXCEPT !.locals = Append(@, MkLocal(token, fi.scopeDepth)),
                                  !.localCount = @ + 1])

\* FunctionInfo::AddLocal
AddLocal(c, token) ==
  IF c.err # NoErr THEN c
  ELSE LET fi == GetC(c)
       IN IF fi.localCount >= kMaxLocals
            THEN Throw(c, "Too many local variables in function")
          ELSE IF HasDuplicate(fi, token.lexeme, Len(fi.locals))
            THEN Throw(c, "Already a variable with this name in scope")
          ELSE IF fi.scopeDepth > kMaxLocalDepth
            THEN Throw(c, "Can't exceed local variable depth")
          ELSE SetC(c, [fi EXCEPT !.locals = Append(@, MkLocal(token, fi.scopeDepth)),
                                  !.localCount = @ + 1])

\* FunctionInfo::MarkInitialized
MarkInitialized(c) ==
  IF c.err # NoErr THEN c
  ELSE LET fi == GetC(c)
       IN IF fi.scopeDepth = 0 THEN c
          ELSE IF fi.scopeDepth > kMaxLocalDepth
            THEN Throw(c, "Can't exceed local variable depth")
          ELSE SetC(c, [fi EXCEPT !.locals[fi.localCount].isInitialized = TRUE,
                                  !.locals[fi.localCount].depth = fi.scopeDepth])

\* a scan of locals_ that returns the oldest local of the name
ResolveScanOldest(fi, name, k) ==
  LET hits == {j \in 1..k : name = fi.locals[j].token.lexeme}
      first == CHOOSE j \in hits : \A i \in hits : j <= i
  IN IF hits = {} THEN [found |-> FALSE, index |-> 0, uninit |-> FALSE]
     ELSE [found |-> fi.locals[first].isInitialized,
           index |-> (fi.localCount - 1) - (Len(fi.locals) - first),
           uninit |-> ~fi.locals[first].isInitialized]

RECURSIVE ResolveScan(_, _, _)
\* the reverse scan of FunctionInfo::ResolveLocal; k is the position in
\* locals_ and i the index that the scan counts down beside it
ResolveScan(fi, name, k) ==
  IF k = 0 THEN [found |-> FALSE, index |-> 0, uninit |-> FALSE]
  ELSE IF name = fi.locals[k].token.lexeme
    THEN [found |-> fi.locals[k].isInitialized,
          index |-> (fi.localCount - 1) - (Len(fi.locals) - k),
          uninit |-> ~fi.locals[k].isInitialized]
  ELSE ResolveScan(fi, name, k - 1)

\* FunctionInfo::ResolveLocal : found, index, and uninit when it throws
FIResolveLocal(fi, name) ==
  IF fi.localCount <= 1 THEN [found |-> FALSE, index |-> 0, uninit |-> FALSE]
  ELSE ResolveScan(fi, name, Len(fi.locals))

RECURSIVE FindUpvalue(_, _, _, _)
FindUpvalue(upValues, index, isLocal, k) ==
  IF k > Len(upValues) THEN 0
  ELSE IF upValues[k].index = index /\ upValues[k].isLocal = isLocal THEN k
  ELSE FindUpvalue(upValues, index, isLocal, k + 1)

\* FunctionInfo::AddUpvalue on the function i levels out; index in and out
\* through c.ret
AddUpvalue(c, i, isLocal) ==
  IF c.err # NoErr THEN c
  ELSE LET fi == GetCAt(c, i)
           index == c.ret
           upvalueCount == fi.function.upvalueCount
           it == FindUpvalue(fi.upValues, index, isLocal, 1)
       IN IF it # 0 THEN Ret(c, fi.upValues[it].index)
          ELSE IF index > kMaxUpvalueIndex
            THEN Throw(c, "Can't exceed maximum upvalue index")
          ELSE IF Len(fi.upValues) >= kMaxUpvaluesInfo
            THEN Throw(c, "upValues_ capacity exceeded")
          ELSE IF upvalueCount + 1 = kMaxUpvalues
            THEN Throw(SetCAt(c, i, [fi EXCEPT
                         !.upValues = Append(@, [isLocal |-> isLocal, index |-> index]),
                         !.function.upvalueCount = @ + 1]),
                       "Too many closure variables in function")
          ELSE Ret(SetCAt(c, i, [fi EXCEPT
                         !.upValues = Append(@, [isLocal |-> isLocal, index |-> index]),
                         !.function.upvalueCount = @ + 1]),
                   upvalueCount)

\* Compiler::ResolveLocal : c.ret.found / c.ret.index
ResolveLocal(c, identifierName) ==
  IF c.err # NoErr THEN c
  ELSE LET r == FIResolveLocal(GetC(c), identifierName)
       IN IF r.uninit
            THEN Throw(c, "Can't read local variable in its own initializer")
            ELSE Ret(c, r)

RECURSIVE RecursiveResolveUpvalue(_, _, _)
\* Compiler::RecursiveResolveUpvalue : c.ret.found / c.ret.index
RecursiveResolveUpvalue(c, identifierName, scope) ==
  IF c.err # NoErr THEN c
  ELSE IF scope + 1 >= GetScopeCount(c)
    THEN Ret(c, [found |-> FALSE, index |-> 0])
  ELSE LET r == FIResolveLocal(GetCAt(c, scope + 1), identifierName)
       IN IF r.uninit
            THEN Throw(c, "Can't read local variable in its own initializer")
          ELSE IF r.found
            THEN LET c1 == AddUpvalue(Ret(c, r.index), scope, TRUE)
                 IN Ret(c1, [found |-> TRUE, index |-> c1.ret])
          ELSE LET c2 == RecursiveResolveUpvalue(c, identifierName, scope + 1)
               IN IF c2.err = NoErr /\ c2.ret.found
                    THEN LET c3 == AddUpvalue(Ret(c2, c2.ret.index), scope, FALSE)
                         IN Ret(c3, [found |-> TRUE, index |-> c3.ret])
                    ELSE Ret(c2, [found |-> FALSE, index |-> 0])

\* Compiler::ResolveUpvalue
ResolveUpvalue(c, identifierName) ==
  IF c.err # NoErr THEN c
  ELSE IF GetC(c).functionType = "Script"
    THEN Ret(c, [found |-> FALSE, index |-> 0])
  ELSE LET r == FIResolveLocal(GetC(c), identifierName)
       IN IF r.uninit
            THEN Throw(c, "Can't read local variable in its own initializer")
          ELSE IF r.found
            THEN LET c1 == AddUpvalue(Ret(c, r.index), 0, TRUE)
                 IN Ret(c1, [found |-> TRUE, index |-> c1.ret])
          ELSE RecursiveResolveUpvalue(c, identifierName, 0)

(***************************************************************************)
(* Scopes                                                                  *)
(***************************************************************************)
\* Compiler::BeginScope / FunctionInfo::IncrementScopeDepth
BeginScope(c) ==
  IF c.err # NoErr THEN c
  ELSE LET fi == GetC(c)
       IN IF fi.scopeDepth = 255 THEN Throw(c, "Can't exceed scope depth")
          ELSE [SetC(c, [fi EXCEPT !.scopeDepth = @ + 1])
                  EXCEPT !.scopeMarks = Append(@, [level |-> Len(c.compStack),
                                                   locals |-> fi.locals,
                                                   size |-> GetSize(c)])]

\* FunctionInfo::SetLocalCount (called by Compiler::EndScope): the locals
\* array is trimmed to the new count
SetLocalCount(fi, n) == [fi EXCEPT !.localCount = n, !.locals = Take(@, n)]

RECURSIVE CountDiscardInclusive(_, _)
\* the loop of EndScope with the comparison  depth >= scope depth , which also
\* discards the locals of the enclosing scope
CountDiscardInclusive(fi, i) ==
  IF i <= 0 THEN 0
  ELSE (IF fi.locals[i + 1].depth >= fi.scopeDepth THEN 1 ELSE 0)
         + CountDiscardInclusive(fi, i - 1)

RECURSIVE CountDiscard(_, _)
\* the loop of Compiler::EndScope: locals i..1 whose depth exceeds the scope depth
CountDiscard(fi, i) ==
  IF i <= 0 THEN 0
  ELSE (IF fi.locals[i + 1].depth > fi.scopeDepth THEN 1 ELSE 0) + CountDiscard(fi, i - 1)

\* Compiler::EndScope
EndScope(c) ==
  IF c.err # NoErr THEN c
  ELSE LET fi == [GetC(c) EXCEPT !.scopeDepth = @ - 1]
           localCount == fi.localCount
           discardCount == CountDiscard(fi, localCount - 1)
           c1 == [c EXCEPT !.blocks[fi.function.block].code =
                              @ \o [k \in 1..discardCount |-> OpPop]]
           c2 == SetC(c1, IF localCount = 0 THEN fi
                          ELSE SetLocalCount(fi, localCount - discardCount))
           mark == Last(c.scopeMarks)
       IN [c2 EXCEPT !.scopeMarks = Front(@),
                     !.scopeLog = Append(@,
                        [atBegin |-> mark.locals,
                         atEnd |-> GetC(c).locals,
                         after |-> GetC(c2).locals,
                         emitted |-> SubSeq(GetCurrentByteCodeBlock(c2).code,
                                            GetSize(c) + 1, GetSize(c2))])]

(***************************************************************************)
(* kParseRules (Compiler.cpp): prefix handler, infix handler, precedence   *)
(***************************************************************************)
ParseRule(prefix, infix, precedence) ==
  [prefix |-> prefix, infix |-> infix, precedence |-> precedence]

GetRule(tokenType) ==
  CASE tokenType = "OpenParen" -> ParseRule("Grouping", "Call", PrecCall)
    [] tokenType \in {"LessThan", "GreaterThan", "LessThanEqual", "GreaterThanEqual"}
         -> ParseRule("", "Binary", PrecComparison)
    [] tokenType = "Plus" -> ParseRule("", "Binary", PrecAdd)
    [] tokenType = "Minus" -> ParseRule("Unary", "Binary", PrecAdd)
    [] tokenType \in {"Multiply", "Divide", "Modulus"} -> ParseRule("", "Binary", PrecMult)
    [] tokenType \in {"IsEqual", "NotEqual"} -> ParseRule("", "Binary", PrecEquality)
    [] tokenType = "Number" -> ParseRule("Number", "", PrecNone)
    [] tokenType \in {"Identifier", "FunRef"} -> ParseRule("Variable", "", PrecNone)
    [] tokenType = "String" -> ParseRule("String", "", PrecNone)
    [] tokenType = "And" -> ParseRule("", "And", PrecAnd)
    [] tokenType = "Or" -> ParseRule("", "Or", PrecOr)
    [] tokenType = "Not" -> ParseRule("Unary", "", PrecNone)
    [] tokenType \in {"True", "False"} -> ParseRule("Literal", "", PrecNone)
    [] OTHER -> ParseRule("", "", PrecNone)

TypeKeywords == {"Str", "Int", "Bool", "Char"}

\* Compiler::GetEmptyValue
GetEmptyValue(tokenType) ==
  CASE tokenType = "Str" -> StrV("")
    [] tokenType = "Int" -> IntV(0)
    [] tokenType = "Bool" -> BoolV(FALSE)
    [] tokenType = "Char" -> CharV(0)
    [] OTHER -> StrV("")

\* Value::Value( Token ) for the literal tokens
ValueOfToken(token) ==
  CASE token.type = "True" -> BoolV(TRUE)
    [] token.type = "False" -> BoolV(FALSE)
    [] token.type = "String" -> StrV(token.lexeme)
    [] token.type = "Number" -> IntV(ToNum(token.lexeme))

(***************************************************************************)
(* Variables                                                               *)
(***************************************************************************)
\* Compiler::DeclareVariable
DeclareVariable(c) ==
  IF c.err # NoErr THEN c
  ELSE IF GetC(c).scopeDepth = 0 THEN c
  ELSE AddLocal(c, PrevToken(c))

\* Compiler::ParseVariable : c.ret is the constant index of a global's name
ParseVariable(c, errMsg) ==
  LET c1 == Consume(c, "Identifier", errMsg)
      c2 == DeclareVariable(c1)
  IN IF c2.err # NoErr THEN c2
     ELSE IF GetC(c2).scopeDepth > 0 THEN Ret(c2, 0)
     ELSE IdentifierConstant(c2, PrevToken(c1).lexeme)

\* Compiler::DefineVariable
DefineVariable(c, global) ==
  IF c.err # NoErr THEN c
  ELSE IF GetC(c).scopeDepth > 0 THEN MarkInitialized(c)
  ELSE EmitBytes(c, OpDefineGlobal, global)

(***************************************************************************)
(* Expressions                                                             *)
(***************************************************************************)
RECURSIVE ParsePrecedence(_, _), InfixLoop(_, _, _), Prefix(_, _, _), Infix(_, _, _),
          NamedVariable(_, _, _), ArgumentLoop(_, _)

\* Compiler::Expression
Expression(c) == ParsePrecedence(c, PrecAssignment)

\* Compiler::Grouping
Grouping(c) == Consume(Expression(c), "CloseParen", "Expected ')' after expression")

\* Compiler::Number
Number(c) == IF c.err # NoErr THEN c ELSE EmitConstant(c, ValueOfToken(PrevToken(c)))

\* Compiler::String
String(c) == IF c.err # NoErr THEN c ELSE EmitConstant(c, StrV(PrevToken(c).lexeme))

\* Compiler::Literal
Literal(c) ==
  IF c.err # NoErr THEN c
  ELSE IF PrevToken(c).type = "True" THEN EmitByte(c, OpTrue) ELSE EmitByte(c, OpFalse)

\* Compiler::Unary
Unary(c) ==
  IF c.err # NoErr THEN c
  ELSE LET operatorType == PrevToken(c).type
           Emit(c1) == IF operatorType = "Not" THEN EmitByte(c1, OpNot)
                       ELSE EmitByte(c1, OpNegate)
       IN Emit(ParsePrecedence(c, PrecUnary))

\* Compiler::Binary
Binary(c) ==
  IF c.err # NoErr THEN c
  ELSE LET operatorType == PrevToken(c).type
           Emit(c1) ==
             CASE operatorType = "LessThan" -> EmitByte(c1, OpLess)
               [] operatorType = "GreaterThan" -> EmitByte(c1, OpGreater)
               [] operatorType = "IsEqual" -> EmitByte(c1, OpIsEqual)
               [] operatorType = "NotEqual" -> EmitBytes(c1, OpIsEqual, OpNot)
               [] operatorType = "LessThanEqual" -> EmitBytes(c1, OpGreater, OpNot)
               [] operatorType = "GreaterThanEqual" -> EmitBytes(c1, OpLess, OpNot)
               [] operatorType = "Plus" -> EmitByte(c1, OpAdd)
               [] operatorType = "Minus" -> EmitByte(c1, OpSubtract)
               [] operatorType = "Multiply" -> EmitByte(c1, OpMultiply)
               [] operatorType = "Divide" -> EmitByte(c1, OpDivide)
               [] operatorType = "Modulus" -> EmitByte(c1, OpModulus)
               [] OTHER -> c1
       IN Emit(ParsePrecedence(c, GetRule(operatorType).precedence + 1))

\* the do-while of Compiler::ArgumentList; c.ret is argCount (a uint8_t)
ArgumentLoop(c, argCount) ==
  IF c.err # NoErr THEN c
  ELSE LET While(c1, n) ==
             IF c1.err # NoErr THEN c1
             ELSE IF n = 0 THEN Throw(c1, "Can't have more than 255 arguments")
             ELSE IF Matches(c1, {"Comma"}) THEN ArgumentLoop(Advance(c1), n)
             ELSE Ret(c1, n)
       IN While(Expression(c), (argCount + 1) % 256)

\* Compiler::ArgumentList
ArgumentList(c) ==
  IF c.err # NoErr THEN c
  ELSE LET Close(c1) ==
             Ret(Consume(c1, "CloseParen", "Expected ')' after arguments"), c1.ret)
       IN Close(IF ~Check(c, "CloseParen") THEN ArgumentLoop(c, 0) ELSE Ret(c, 0))

\* Compiler::Call
Call(c) ==
  LET Emit(c1) == EmitBytes(c1, OpCall, c1.ret)
  IN Emit(ArgumentList(c))

\* And with the jump patched before the right operand is compiled: the jump
\* lands on the first instruction of the right operand
AndPatchedEarly(c) ==
  LET Log(c4, endJump) ==
        IF c4.err # NoErr THEN c4
        ELSE [c4 EXCEPT !.circuitLog = @ \cup
                {[block |-> GetC(c).function.block, kind |-> "and",
                  test |-> endJump - 1, skip |-> endJump - 1,
                  from |-> endJump + 2, to |-> GetSize(c4)]}]
      Rhs(c1) ==
        Log(ParsePrecedence(PatchJump(EmitByte(c1, OpPop), c1.ret), PrecAnd), c1.ret)
  IN Rhs(EmitJump(c, OpJumpIfFalse))

\* Compiler::And ; the jump and the code of the right operand are recorded
And(c) ==
  LET Log(c4, endJump) ==
        IF c4.err # NoErr THEN c4
        ELSE [c4 EXCEPT !.circuitLog = @ \cup
                {[block |-> GetC(c).function.block, kind |-> "and",
                  test |-> endJump - 1, skip |-> endJump - 1,
                  from |-> endJump + 2, to |-> GetSize(c4)]}]
      Rhs(c1) ==
        Log(PatchJump(ParsePrecedence(EmitByte(c1, OpPop), PrecAnd), c1.ret), c1.ret)
  IN Rhs(EmitJump(c, OpJumpIfFalse))

\* Or without the Pop of the left operand before the right operand
OrKeepingLeft(c) ==
  LET Log(c6, elseJump, endJump) ==
        IF c6.err # NoErr THEN c6
        ELSE [c6 EXCEPT !.circuitLog = @ \cup
                {[block |-> GetC(c).function.block, kind |-> "or",
                  test |-> elseJump - 1, skip |-> endJump - 1,
                  from |-> endJump + 2, to |-> GetSize(c6)]}]
      Rhs(c2, elseJump) ==
        Log(PatchJump(ParsePrecedence(PatchJump(c2, elseJump), PrecOr), c2.ret),
            elseJump, c2.ret)
      Else(c1) == Rhs(EmitJump(c1, OpJump), c1.ret)
  IN Else(EmitJump(c, OpJumpIfFalse))

\* Compiler::Or
Or(c) ==
  LET Log(c6, elseJump, endJump) ==
        IF c6.err # NoErr THEN c6
        ELSE [c6 EXCEPT !.circuitLog = @ \cup
                {[block |-> GetC(c).function.block, kind |-> "or",
                  test |-> elseJump - 1, skip |-> endJump - 1,
                  from |-> endJump + 2, to |-> GetSize(c6)]}]
      Rhs(c2, elseJump) ==
        Log(PatchJump(ParsePrecedence(EmitByte(PatchJump(c2, elseJump), OpPop), PrecOr),
                      c2.ret),
            elseJump, c2.ret)
      Else(c1) == Rhs(EmitJump(c1, OpJump), c1.ret)
  IN Else(EmitJump(c, OpJumpIfFalse))

\* the record of a resolved name: the opcode and index NamedVariable chose,
\* the names in locals_ of the current function and of the enclosing ones at
\* that point, and the constant behind the index of a global
ResolveRecord(c, varName, c4, getOp, index) ==
  IF c4.err # NoErr \/ index > 255 THEN c4
  ELSE [c4 EXCEPT !.resolveLog = @ \cup
          {[name |-> varName, op |-> getOp, index |-> index,
            own |-> [k \in 1..Len(GetC(c).locals) |-> GetC(c).locals[k].token.lexeme],
            outer |-> UNION {{GetCAt(c, i).locals[k].token.lexeme :
                                k \in 1..Len(GetCAt(c, i).locals)} :
                             i \in 1..(GetScopeCount(c) - 1)},
            script |-> GetC(c).functionType = "Script",
            key |-> IF getOp = OpGetGlobal
                      THEN GetCurrentByteCodeBlock(c4).constants[index + 1]
                      ELSE StrV("")]}]

\* Compiler::NamedVariable
NamedVariable(c, varName, canAssign) ==
  LET Access(c3, getOp, setOp) ==
        CASE c3.err # NoErr -> c3
          [] c3.ret > 255 -> Throw(c3, "Can't exceed 255 variables")
          [] canAssign /\ Matches(c3, {"Assign"}) ->
               EmitBytes(Expression(Advance(c3)), setOp, c3.ret)
          [] OTHER -> EmitBytes(c3, getOp, c3.ret)
      Emit(c3, getOp, setOp) ==
        Access(ResolveRecord(c, varName, c3, getOp, c3.ret), getOp, setOp)
      \* c1 follows ResolveLocal and c2 follows ResolveUpvalue, which is
      \* called when the name is not a local
      Resolved(c1, c2) ==
        CASE c1.err = NoErr /\ c1.ret.found ->
               Emit(Ret(c1, c1.ret.index), OpGetLocal, OpSetLocal)
          [] c2.err = NoErr /\ c2.ret.found ->
               Emit(Ret(c2, c2.ret.index), OpGetUpvalue, OpSetUpvalue)
          [] OTHER -> Emit(IdentifierConstant(c2, varName), OpGetGlobal, OpSetGlobal)
  IN IF c.err # NoErr THEN c
     ELSE Resolved(ResolveLocal(c, varName),
                   ResolveUpvalue(ResolveLocal(c, varName), varName))

\* a variable reference that never takes the assignment
VariableReadOnly(c, canAssign) ==
  IF c.err # NoErr THEN c ELSE NamedVariable(c, PrevToken(c).lexeme, FALSE)

\* Compiler::Variable
Variable(c, canAssign) ==
  IF c.err # NoErr THEN c ELSE NamedVariable(c, PrevToken(c).lexeme, canAssign)

\* ( this->*prefix )( canAssign )
Prefix(c, fn, canAssign) ==
  CASE fn = "Grouping" -> Grouping(c)
    [] fn = "Number" -> Number(c)
    [] fn = "String" -> String(c)
    [] fn = "Literal" -> Literal(c)
    [] fn = "Unary" -> Unary(c)
    [] fn = "Variable" -> Variable(c, canAssign)

\* ( this->*infix )( canAssign )
Infix(c, fn, canAssign) ==
  CASE fn = "Binary" -> Binary(c)
    [] fn = "Call" -> Call(c)
    [] fn = "And" -> And(c)
    [] fn = "Or" -> Or(c)

\* the while loop of Compiler::ParsePrecedence
InfixLoop(c, precedence, canAssign) ==
  CASE c.err # NoErr -> c
    [] precedence <= GetRule(CurrToken(c).type).precedence ->
         \* after Advance, prevToken_ is the token that was current
         InfixLoop(Infix(Advance(c), GetRule(CurrToken(c).type).infix, canAssign),
                   precedence, canAssign)
    [] OTHER -> c

\* Compiler::ParsePrecedence
ParsePrecedence(c, precedence) ==
  LET canAssign == precedence <= PrecAssignment
      \* after Advance, prevToken_ is the token that was current
      prefix == GetRule(CurrToken(c).type).prefix
      Finish(c2) ==
        IF canAssign /\ Matches(c2, {"Assign"})
          THEN Throw(Advance(c2), "Invalid assignment target")
          ELSE c2
  IN CASE c.err # NoErr -> c
       [] prefix = "" -> Throw(Advance(c), "Expected an expression")
       [] OTHER -> Finish(InfixLoop(Prefix(Advance(c), prefix, canAssign),
                                    precedence, canAssign))

(***************************************************************************)
(* Statements and declarations                                             *)
(***************************************************************************)
RECURSIVE Declaration(_), Statement(_), BlockLoop(_), ParameterLoop(_),
          EmitUpvalues(_, _, _, _)

\* ExpressionStatement without the Pop of the value
ExpressionStatementKeepingValue(c) ==
  Consume(Expression(c), "EndStatement", "Expected ';' after expression")

\* Compiler::ExpressionStatement
ExpressionStatement(c) ==
  EmitByte(Consume(Expression(c), "EndStatement", "Expected ';' after expression"), OpPop)

\* Compiler::PrintStatement
PrintStatement(c) ==
  EmitByte(Consume(Expression(c), "EndStatement", "Expected ';' after value"), OpPrint)

\* Compiler::ReturnStatement
ReturnStatement(c) ==
  IF c.err # NoErr THEN c
  ELSE IF GetC(c).functionType = "Script" THEN Throw(c, "Top level code may not return")
  ELSE LET c1 == IF Matches(c, {"EndStatement"}) THEN EmitByte(Advance(c), OpEmpty)
                 ELSE Consume(Expression(c), "EndStatement",
                              "Expected ';' after return value")
       IN EmitByte(c1, OpReturn)

\* Compiler::VarDeclaration
VarDeclaration(c) ==
  IF c.err # NoErr THEN c
  ELSE LET variableType == PrevToken(c).type
           Initializer(c1) ==
             IF Matches(c1, {"Assign"}) THEN Expression(Advance(c1))
             ELSE EmitConstant(c1, GetEmptyValue(variableType))
           Define(c1) ==
             DefineVariable(
               Consume(Initializer(c1), "EndStatement",
                       "Expected ';' after variable declaration"),
               c1.ret)
       IN Define(ParseVariable(c, "Expected variable name"))

\* the record of a compiled if statement: the offsets of the first byte of
\* the condition, of the JumpIfFalse, of the Jump that ends the then arm and
\* of the first byte after the statement
IfRecord(c, c7, thenBytes, elseBytes, hasElse) ==
  IF c7.err # NoErr THEN c7
  ELSE [c7 EXCEPT !.ifLog = @ \cup
          {[block |-> GetC(c).function.block, start |-> GetSize(c),
            test |-> thenBytes - 1, jump |-> elseBytes - 1, end |-> GetSize(c7),
            hasElse |-> hasElse]}]

\* IfStatement without the Pop that begins the else path
IfStatementSharedPop(c) ==
  LET ElseBranch(c6) == IF Matches(c6, {"Else"}) THEN Statement(Advance(c6)) ELSE c6
      Arm(c6, thenBytes, elseBytes) ==
        IfRecord(c, PatchJump(ElseBranch(c6), elseBytes), thenBytes, elseBytes,
                 Matches(c6, {"Else"}))
      Else(c5, thenBytes) == Arm(PatchJump(c5, thenBytes), thenBytes, c5.ret)
      Then(c3) == Else(EmitJump(Statement(EmitByte(c3, OpPop)), OpJump), c3.ret)
  IN Then(EmitJump(
            Consume(Expression(Consume(c, "OpenParen", "Expected '(' after if statement")),
                    "CloseParen", "Expected ')' after condition"),
            OpJumpIfFalse))

\* Compiler::IfStatement
IfStatement(c) ==
  LET ElseBranch(c6) == IF Matches(c6, {"Else"}) THEN Statement(Advance(c6)) ELSE c6
      Arm(c6, thenBytes, elseBytes) ==
        IfRecord(c, PatchJump(ElseBranch(c6), elseBytes), thenBytes, elseBytes,
                 Matches(c6, {"Else"}))
      Else(c5, thenBytes) ==
        Arm(EmitByte(PatchJump(c5, thenBytes), OpPop), thenBytes, c5.ret)
      Then(c3) == Else(EmitJump(Statement(EmitByte(c3, OpPop)), OpJump), c3.ret)
  IN Then(EmitJump(
            Consume(Expression(Consume(c, "OpenParen", "Expected '(' after if statement")),
                    "CloseParen", "Expected ')' after condition"),
            OpJumpIfFalse))

\* Compiler::WhileStatement
WhileStatement(c) ==
  IF c.err # NoErr THEN c
  ELSE LET loopStart == GetSize(c)
           Body(c3) ==
             EmitByte(PatchJump(EmitLoop(Statement(EmitByte(c3, OpPop)), loopStart),
                                c3.ret),
                      OpPop)
       IN Body(EmitJump(
                 Consume(Expression(Consume(c, "OpenParen", "Expected '(' after 'while'")),
                         "CloseParen", "Expected ')' after condition"),
                 OpJumpIfFalse))

\* the record of a compiled for statement: the offsets of the first byte of
\* the initializer, of the condition, of the JumpIfFalse, of the increment (of
\* the condition when there is none), of the body, of the Loop that ends the
\* body, of the code after the exit Pop and of the code after EndScope
ForRecord(c, c9, c10, cond, loopStart, hasConditionClause, exitJump, body, bodyLoop) ==
  IF c10.err # NoErr THEN c10
  ELSE [c10 EXCEPT !.forLog = @ \cup
          {[block |-> GetC(c).function.block, init |-> GetSize(c), cond |-> cond,
            hasCondition |-> hasConditionClause, test |-> exitJump - 1,
            hasIncrement |-> loopStart # cond, incr |-> loopStart,
            body |-> body, bodyLoop |-> bodyLoop,
            exit |-> GetSize(c9), end |-> GetSize(c10)]}]

\* ForStatement without the Jump over the increment clause: the increment
\* runs where the body should
ForStatementIncrementFirst(c) ==
  IF c.err # NoErr THEN c
  ELSE LET Size(c0) == IF c0.err = NoErr THEN GetSize(c0) ELSE 0
           \* loop body, exit jump and end of the scope
           Exit(c8, hasConditionClause, exitJump) ==
             IF hasConditionClause THEN EmitByte(PatchJump(c8, exitJump), OpPop) ELSE c8
           Finish(c9, cond, loopStart, hasConditionClause, exitJump, body, bodyLoop) ==
             ForRecord(c, c9, EndScope(c9), cond, loopStart, hasConditionClause,
                       exitJump, body, bodyLoop)
           Close(c8, cond, loopStart, hasConditionClause, exitJump, body) ==
             Finish(Exit(EmitLoop(c8, loopStart), hasConditionClause, exitJump),
                    cond, loopStart, hasConditionClause, exitJump, body, Size(c8))
           Body(c7, cond, loopStart, hasConditionClause, exitJump) ==
             Close(Statement(c7), cond, loopStart, hasConditionClause, exitJump, Size(c7))
           \* increment clause
           WithIncrement(c6, cond, hasConditionClause, exitJump) ==
             Body(EmitLoop(
                    Consume(EmitByte(Expression(c6), OpPop), "CloseParen",
                            "Expected ')' after 'for' clause"),
                    cond),
                  cond, Size(c6), hasConditionClause, exitJump)
           Increment(c5, cond, hasConditionClause, exitJump) ==
             IF Matches(c5, {"CloseParen"})
               THEN Body(Advance(c5), cond, cond, hasConditionClause, exitJump)
               ELSE WithIncrement(c5, cond, hasConditionClause, exitJump)
           \* condition clause
           WithCondition(c4, cond) ==
             Increment(EmitByte(c4, OpPop), cond, TRUE, c4.ret)
           Condition(c2) ==
             IF Matches(c2, {"EndStatement"})
               THEN Increment(Advance(c2), Size(c2), FALSE, 0)
               ELSE WithCondition(
                      EmitJump(Consume(Expression(c2), "EndStatement",
                                       "Expected second ';' in 'for'"),
                               OpJumpIfFalse),
                      Size(c2))
           \* initializer clause
           Initializer(c1) ==
             Condition(IF Matches(c1, {"EndStatement"}) THEN Advance(c1)
                       ELSE IF Matches(c1, TypeKeywords) THEN VarDeclaration(Advance(c1))
                       ELSE ExpressionStatement(c1))
       IN Initializer(Consume(BeginScope(c), "OpenParen", "Expected '(' after 'for'"))

\* Compiler::ForStatement
ForStatement(c) ==
  IF c.err # NoErr THEN c
  ELSE LET Size(c0) == IF c0.err = NoErr THEN GetSize(c0) ELSE 0
           \* loop body, exit jump and end of the scope
           Exit(c8, hasConditionClause, exitJump) ==
             IF hasConditionClause THEN EmitByte(PatchJump(c8, exitJump), OpPop) ELSE c8
           Finish(c9, cond, loopStart, hasConditionClause, exitJump, body, bodyLoop) ==
             ForRecord(c, c9, EndScope(c9), cond, loopStart, hasConditionClause,
                       exitJump, body, bodyLoop)
           Close(c8, cond, loopStart, hasConditionClause, exitJump, body) ==
             Finish(Exit(EmitLoop(c8, loopStart), hasConditionClause, exitJump),
                    cond, loopStart, hasConditionClause, exitJump, body, Size(c8))
           Body(c7, cond, loopStart, hasConditionClause, exitJump) ==
             Close(Statement(c7), cond, loopStart, hasConditionClause, exitJump, Size(c7))
           \* increment clause
           WithIncrement(c6, cond, hasConditionClause, exitJump) ==
             Body(PatchJump(
                    EmitLoop(
                      Consume(EmitByte(Expression(c6), OpPop), "CloseParen",
                              "Expected ')' after 'for' clause"),
                      cond),
                    c6.ret),
                  cond, Size(c6), hasConditionClause, exitJump)
           Increment(c5, cond, hasConditionClause, exitJump) ==
             IF Matches(c5, {"CloseParen"})
               THEN Body(Advance(c5), cond, cond, hasConditionClause, exitJump)
               ELSE WithIncrement(EmitJump(c5, OpJump), cond, hasConditionClause, exitJump)
           \* condition clause
           WithCondition(c4, cond) ==
             Increment(EmitByte(c4, OpPop), cond, TRUE, c4.ret)
           Condition(c2) ==
             IF Matches(c2, {"EndStatement"})
               THEN Increment(Advance(c2), Size(c2), FALSE, 0)
               ELSE WithCondition(
                      EmitJump(Consume(Expression(c2), "EndStatement",
                                       "Expected second ';' in 'for'"),
                               OpJumpIfFalse),
                      Size(c2))
           \* initializer clause
           Initializer(c1) ==
             Condition(IF Matches(c1, {"EndStatement"}) THEN Advance(c1)
                       ELSE IF Matches(c1, TypeKeywords) THEN VarDeclaration(Advance(c1))
                       ELSE ExpressionStatement(c1))
       IN Initializer(Consume(BeginScope(c), "OpenParen", "Expected '(' after 'for'"))

\* Compiler::Block
Block(c) == Consume(BlockLoop(c), "CloseBrace", "Expected '}' after block")

\* a statement boundary: the size of the code of the current function and
\* the number of its locals between two declarations
Boundary(c) ==
  [block |-> GetC(c).function.block, offset |-> GetSize(c),
   locals |-> GetC(c).localCount]

\* c1 is the compiler after an iteration of a declaration loop begun at c: an
\* iteration that neither moved currToken_ nor threw would be repeated
\* forever; the boundaries before and after the declaration are recorded
Iteration(c, c1) ==
  CASE c1.err # NoErr -> c1
    [] c1.curr = c.curr -> [c1 EXCEPT !.stalled = TRUE]
    [] OTHER -> [c1 EXCEPT !.boundaryLog = @ \cup {Boundary(c), Boundary(c1)}]

\* the while loop of Compiler::Block; an iteration without progress is
\* recorded in c.stalled and the loop is cut there
BlockLoop(c) ==
  CASE c.err # NoErr -> c
    [] c.stalled -> c
    [] Check(c, "CloseBrace") -> c
    [] Check(c, "EndOfFile") -> c
    [] OTHER -> BlockLoop(Iteration(c, Declaration(c)))

\* Function::IncrementParamCount
IncrementParamCount(c) ==
  IF c.err # NoErr THEN c
  ELSE LET fi == GetC(c)
           c1 == SetC(c, [fi EXCEPT !.function.paramCount = @ + 1])
       IN IF fi.function.paramCount + 1 = kMaxParams
            THEN Throw(c1, "Parameter count on function can't exceed 32")
            ELSE c1

\* the do-while over the parameters in Compiler::FunctionCall
ParameterLoop(c) ==
  IF c.err # NoErr THEN c
  ELSE LET While(c4) == IF Matches(c4, {"Comma"}) THEN ParameterLoop(Advance(c4)) ELSE c4
           \* the slot of the parameter just declared is recorded
           Log(c4) ==
             IF c4.err # NoErr THEN c4
             ELSE [c4 EXCEPT !.paramLog = @ \cup
                     {[block |-> GetC(c4).function.block,
                       param |-> GetC(c4).function.paramCount,
                       slot |-> GetC(c4).localCount - 1]}]
           Define(c3) == While(Log(DefineVariable(c3, c3.ret)))
           Type(c1) ==
             Define(ParseVariable(IF Matches(c1, TypeKeywords) THEN Advance(c1)
                                  ELSE Throw(c1, "Expected parameter type"),
                                  "Expected parameter name"))
       IN Type(IncrementParamCount(c))

\* a FunctionCall that emits no upvalue operands
EmitNoUpvalues(c, upValues, i, count) == c

\* FunctionInfo::GetUpvalue and the emitting loop of Compiler::FunctionCall
EmitUpvalues(c, upValues, i, count) ==
  IF c.err # NoErr \/ i >= count THEN c
  ELSE IF i >= kMaxUpvaluesInfo THEN Throw(c, "Can't exceed 16 upvalues")
  ELSE EmitUpvalues(
         EmitBytes(c, IF upValues[i + 1].isLocal THEN 1 ELSE 0, upValues[i + 1].index),
         upValues, i + 1, count)

\* observation: the Closure instruction emitted at offset at of a block ends
\* where the code of the block ends now
LogClosure(c, block, at) ==
  IF c.err # NoErr THEN c
  ELSE [c EXCEPT !.closureLog =
                    @ \cup {[block |-> block, at |-> at, next |-> Len(c.blocks[block].code)]}]

\* Compiler::FunctionCall : compiles the parameter list and body of a function.
\* When an error is thrown in between, compStack_ keeps the entry pushed here.
FunctionCall(c) ==
  IF c.err # NoErr THEN c
  ELSE LET comp0 == [NewFunctionInfo(Len(c.blocks) + 1) EXCEPT
                       !.functionType = "Function",
                       !.function.name = PrevToken(c).lexeme]
           Parameters(c2) ==
             IF c2.err = NoErr /\ ~Check(c2, "CloseParen") THEN ParameterLoop(c2) ELSE c2
           \* compStack_.pop_back()
           PopBack(c7) == [c7 EXCEPT !.compStack = Front(@), !.scopeMarks = Front(@),
                                     !.functionLog = @ \cup {GetC(c7).locals}]
           Emit(c9, info) ==
             LogClosure(EmitUpvalues(EmitBytes(c9, OpClosure, c9.ret), info.upValues, 0,
                                     info.function.upvalueCount),
                        GetC(c9).function.block, GetSize(c9))
           Finish(c6) ==
             IF c6.err # NoErr THEN c6
             ELSE Emit(MakeConstant(PopBack(EmitReturn(c6)),
                                    ClosureV(NewClosure(GetC(c6).function))),
                       GetC(c6))
       IN Finish(
            Block(
              Consume(
                Consume(
                  Parameters(
                    Consume(BeginScope([c EXCEPT !.compStack = Append(@, comp0),
                                                 !.blocks = Append(@, NewBlock)]),
                            "OpenParen", "Expected '(' after function name")),
                  "CloseParen", "Expected ')' after parameters"),
                "OpenBrace", "Expected '{' before function body")))

\* Compiler::FunctionDeclaration
FunctionDeclaration(c) ==
  LET Define(c1) == DefineVariable(FunctionCall(MarkInitialized(c1)), c1.ret)
  IN Define(ParseVariable(c, "Expected function name"))

\* Statement taking a lone  ;  for an empty statement and leaving the token
\* where it is
StatementKeepingSemicolon(c) ==
  CASE c.err # NoErr -> c
    [] Matches(c, {"EndStatement"}) -> c
    [] Matches(c, {"Print"}) -> PrintStatement(Advance(c))
    [] Matches(c, {"For"}) -> ForStatement(Advance(c))
    [] Matches(c, {"If"}) -> IfStatement(Advance(c))
    [] Matches(c, {"Return"}) -> ReturnStatement(Advance(c))
    [] Matches(c, {"While"}) -> WhileStatement(Advance(c))
    [] Matches(c, {"OpenBrace"}) -> EndScope(Block(BeginScope(Advance(c))))
    [] OTHER -> ExpressionStatement(c)

\* Compiler::Statement
Statement(c) ==
  CASE c.err # NoErr -> c
    [] Matches(c, {"Print"}) -> PrintStatement(Advance(c))
    [] Matches(c, {"For"}) -> ForStatement(Advance(c))
    [] Matches(c, {"If"}) -> IfStatement(Advance(c))
    [] Matches(c, {"Return"}) -> ReturnStatement(Advance(c))
    [] Matches(c, {"While"}) -> WhileStatement(Advance(c))
    [] Matches(c, {"OpenBrace"}) -> EndScope(Block(BeginScope(Advance(c))))
    [] OTHER -> ExpressionStatement(c)

\* Compiler::Declaration
Declaration(c) ==
  CASE c.err # NoErr -> c
    [] Matches(c, {"Function"}) -> FunctionDeclaration(Advance(c))
    [] Matches(c, TypeKeywords \cup {"FunRef"}) -> VarDeclaration(Advance(c))
    [] OTHER -> Statement(c)

(***************************************************************************)
(* Value arithmetic (Value.cpp operator+= ... operator%=, operator-).      *)
(* The result is [ok, v] or [ok = FALSE, msg] when the operator throws.    *)
(* A char is promoted to int for the operation and the result is stored    *)
(* back into the char.                                                     *)
(***************************************************************************)
Good(v) == [ok |-> TRUE, v |-> v]
Bad(msg) == [ok |-> FALSE, msg |-> msg]

LhsInt(v) == IF v.t = "Int" THEN v.i ELSE IF v.t = "Bool" /\ v.b THEN 1 ELSE 0

ValueAdd(lhs, rhs) ==
  CASE lhs.t = "Str" -> Good(StrV(lhs.s \o ValueToString(rhs)))
    [] lhs.t \in {"Int", "Bool"} -> Good(IntV(LhsInt(lhs) + ValueToInt(rhs)))
    [] lhs.t = "Char" -> Good(CharV(ToChar8(lhs.ch + ValueToChar(rhs))))
    [] OTHER -> Good(lhs)

ValueSubtract(lhs, rhs) ==
  CASE lhs.t = "Str" -> Bad("Can't subtract from string")
    [] lhs.t \in {"Int", "Bool"} -> Good(IntV(LhsInt(lhs) - ValueToInt(rhs)))
    [] lhs.t = "Char" -> Good(CharV(ToChar8(lhs.ch - ValueToChar(rhs))))
    [] OTHER -> Good(lhs)

ValueMultiply(lhs, rhs) ==
  CASE lhs.t = "Str" -> Bad("Can't multiply string")
    [] lhs.t \in {"Int", "Bool"} -> Good(IntV(LhsInt(lhs) * ValueToInt(rhs)))
    [] lhs.t = "Char" -> Good(CharV(ToChar8(lhs.ch * ValueToChar(rhs))))
    [] OTHER -> Good(lhs)

\* C++ integer division truncates toward zero
TruncDiv(a, b) ==
  LET q == (IF a < 0 THEN -a ELSE a) \div (IF b < 0 THEN -b ELSE b)
  IN IF (a < 0) # (b < 0) THEN -q ELSE q
TruncMod(a, b) == a - b * TruncDiv(a, b)

ValueDivide(lhs, rhs) ==
  CASE lhs.t = "Str" -> Bad("Can't divide string")
    [] lhs.t \in {"Int", "Bool"} ->
         IF ValueToInt(rhs) = 0 THEN Bad("Division by zero")
         ELSE Good(IntV(TruncDiv(LhsInt(lhs), ValueToInt(rhs))))
    [] lhs.t = "Char" ->
         IF ValueToChar(rhs) = 0 THEN Bad("Division by zero")
         ELSE Good(CharV(ToChar8(TruncDiv(lhs.ch, ValueToChar(rhs)))))
    [] OTHER -> Good(lhs)

ValueModulus(lhs, rhs) ==
  CASE lhs.t = "Str" -> Bad("Can't modulus string")
    [] lhs.t \in {"Int", "Bool"} ->
         IF ValueToInt(rhs) = 0 THEN Bad("Modulus by zero")
         ELSE Good(IntV(TruncMod(LhsInt(lhs), ValueToInt(rhs))))
    [] lhs.t = "Char" ->
         IF ValueToChar(rhs) = 0 THEN Bad("Modulus by zero")
         ELSE Good(CharV(ToChar8(TruncMod(lhs.ch, ValueToChar(rhs)))))
    [] OTHER -> Good(lhs)

\* Value::operator-() ; the Bool alternative calls GetInt(), which throws
\* std::bad_variant_access
ValueNegate(v) ==
  CASE v.t = "Int" -> Good(IntV(-v.i))
    [] v.t = "Bool" -> Bad("bad_variant_access")
    [] OTHER -> Good(v)

\* position of the alternative in the std::variant of Value
VariantIndex(v) ==
  CASE v.t = "Str" -> 0 [] v.t = "Int" -> 1 [] v.t = "Char" -> 2 [] v.t = "Bool" -> 3
    [] v.t = "Func" -> 4 [] v.t = "NativeFunc" -> 5 [] v.t = "Closure" -> 6

\* the defaulted Value::operator<=> : by alternative first, then by content
\* (Int, Char and Bool contents; other contents compare as unordered here)
Content(v) ==
  CASE v.t = "Int" -> v.i [] v.t = "Char" -> v.ch
    [] v.t = "Bool" -> (IF v.b THEN 1 ELSE 0) [] OTHER -> 0
ValueLess(lhs, rhs) ==
  IF VariantIndex(lhs) # VariantIndex(rhs) THEN VariantIndex(lhs) < VariantIndex(rhs)
  ELSE Content(lhs) < Content(rhs)
ValueEqual(lhs, rhs) == lhs = rhs

(***************************************************************************)
(* Source programs, as the token lists the lexer hands to the compiler     *)
(***************************************************************************)
tId(name) == Tok("Identifier", name)
tNum(digits) == Tok("Number", digits)
tStr(chars) == Tok("String", chars)
tFun == Tok("Function", "fun")
tInt == Tok("Int", "int")
tPrint == Tok("Print", "print")
tReturn == Tok("Return", "return")
tIf == Tok("If", "if")
tElse == Tok("Else", "else")
tWhile == Tok("While", "while")
tFor == Tok("For", "for")
tAnd == Tok("And", "and")
tOr == Tok("Or", "or")
tNot == Tok("Not", "not")
tTrue == Tok("True", "true")
tFalse == Tok("False", "false")
LP == Tok("OpenParen", "(")
RP == Tok("CloseParen", ")")
LB == Tok("OpenBrace", "{")
RB == Tok("CloseBrace", "}")
SEMI == Tok("EndStatement", ";")
COMMA == Tok("Comma", ",")
ASSIGN == Tok("Assign", "=")
PLUS == Tok("Plus", "+")
MINUS == Tok("Minus", "-")
STAR == Tok("Multiply", "*")
SLASH == Tok("Divide", "/")
PERCENT == Tok("Modulus", "%")
LT == Tok("LessThan", "<")
GT == Tok("GreaterThan", ">")
EQEQ == Tok("IsEqual", "==")
EOF == Tok("EndOfFile", "")

\* fun makeCounter() { int c = 0; fun inc() { c = c + 1; return c; } return inc; }
\* print makeCounter()();
SrcMakeCounter ==
  <<tFun, tId("makeCounter"), LP, RP, LB, tInt, tId("c"), ASSIGN, tNum(<<"0">>), SEMI,
    tFun, tId("inc"), LP, RP, LB,
      tId("c"), ASSIGN, tId("c"), PLUS, tNum(<<"1">>), SEMI, tReturn, tId("c"), SEMI, RB,
    tReturn, tId("inc"), SEMI, RB,
    tPrint, tId("makeCounter"), LP, RP, LP, RP, SEMI, EOF>>

\* fun mk(){ int x=1; fun g(){ return x; } return g; } int y = mk()(); print y;
SrcCapture ==
  <<tFun, tId("mk"), LP, RP, LB, tInt, tId("x"), ASSIGN, tNum(<<"1">>), SEMI,
    tFun, tId("g"), LP, RP, LB, tReturn, tId("x"), SEMI, RB,
    tReturn, tId("g"), SEMI, RB,
    tInt, tId("y"), ASSIGN, tId("mk"), LP, RP, LP, RP, SEMI, tPrint, tId("y"), SEMI, EOF>>

\* fun mk(){ int x=1; fun g(){ return x; } x = 2; return g; } print mk()();
SrcCaptureThenAssign ==
  <<tFun, tId("mk"), LP, RP, LB, tInt, tId("x"), ASSIGN, tNum(<<"1">>), SEMI,
    tFun, tId("g"), LP, RP, LB, tReturn, tId("x"), SEMI, RB,
    tId("x"), ASSIGN, tNum(<<"2">>), SEMI,
    tReturn, tId("g"), SEMI, RB,
    tPrint, tId("mk"), LP, RP, LP, RP, SEMI, EOF>>

\* fun mk(){ int a=0; int b=0; fun set(){ b; a = 7; return a; } return set; }
\* print mk()();
SrcSetGet ==
  <<tFun, tId("mk"), LP, RP, LB, tInt, tId("a"), ASSIGN, tNum(<<"0">>), SEMI,
    tInt, tId("b"), ASSIGN, tNum(<<"0">>), SEMI,
    tFun, tId("set"), LP, RP, LB, tId("b"), SEMI,
      tId("a"), ASSIGN, tNum(<<"7">>), SEMI, tReturn, tId("a"), SEMI, RB,
    tReturn, tId("set"), SEMI, RB,
    tPrint, tId("mk"), LP, RP, LP, RP, SEMI, EOF>>

\* fun add(int a, int b) { return a + b; } print add(2, 40);
SrcAdd ==
  <<tFun, tId("add"), LP, tInt, tId("a"), COMMA, tInt, tId("b"), RP, LB,
    tReturn, tId("a"), PLUS, tId("b"), SEMI, RB,
    tPrint, tId("add"), LP, tNum(<<"2">>), COMMA, tNum(<<"4", "0">>), RP, SEMI, EOF>>

\* fun sub(int a, int b) { int t = a - b; return t; } print 1 + sub(50, 9);
SrcSub ==
  <<tFun, tId("sub"), LP, tInt, tId("a"), COMMA, tInt, tId("b"), RP, LB,
    tInt, tId("t"), ASSIGN, tId("a"), MINUS, tId("b"), SEMI, tReturn, tId("t"), SEMI, RB,
    tPrint, tNum(<<"1">>), PLUS, tId("sub"), LP, tNum(<<"5", "0">>), COMMA,
    tNum(<<"9">>), RP, SEMI, EOF>>

\* print 1; print ;
SrcCompileError == <<tPrint, tNum(<<"1">>), SEMI, tPrint, SEMI, EOF>>

\* fun f() { print 2; print ; }
SrcNestedCompileError ==
  <<tFun, tId("f"), LP, RP, LB, tPrint, tNum(<<"2">>), SEMI, tPrint, SEMI, RB, EOF>>

\* print nope;
SrcRuntimeError == <<tPrint, tStr("a"), SEMI, tPrint, tId("nope"), SEMI, EOF>>

\* fun crash() { print "boom"; return true; }
\* print false and crash(); print true or crash(); print 0 and crash(); print "s" or crash();
SrcShortCircuit ==
  <<tFun, tId("crash"), LP, RP, LB, tPrint, tStr("boom"), SEMI, tReturn, tTrue, SEMI, RB,
    tPrint, tFalse, tAnd, tId("crash"), LP, RP, SEMI,
    tPrint, tTrue, tOr, tId("crash"), LP, RP, SEMI,
    tPrint, tNum(<<"0">>), tAnd, tId("crash"), LP, RP, SEMI,
    tPrint, tStr("s"), tOr, tId("crash"), LP, RP, SEMI, EOF>>

\* fun rhs() { print "rhs"; return 5; } print true and rhs(); print false or rhs();
SrcLongCircuit ==
  <<tFun, tId("rhs"), LP, RP, LB, tPrint, tStr("rhs"), SEMI, tReturn, tNum(<<"5">>), SEMI, RB,
    tPrint, tTrue, tAnd, tId("rhs"), LP, RP, SEMI,
    tPrint, tFalse, tOr, tId("rhs"), LP, RP, SEMI, EOF>>

\* if (1 < 2) print "yes"; else print "no";  if (2 < 1) print "a"; else print "b";
\* if (false) print "c";
SrcIf ==
  <<tIf, LP, tNum(<<"1">>), LT, tNum(<<"2">>), RP, tPrint, tStr("yes"), SEMI,
    tElse, tPrint, tStr("no"), SEMI,
    tIf, LP, tNum(<<"2">>), LT, tNum(<<"1">>), RP, tPrint, tStr("a"), SEMI,
    tElse, tPrint, tStr("b"), SEMI,
    tIf, LP, tFalse, RP, tPrint, tStr("c"), SEMI, EOF>>

\* int n = 0; for (int i=0; i<3; i=i+1) { n = n + i; } print n;
SrcFor ==
  <<tInt, tId("n"), ASSIGN, tNum(<<"0">>), SEMI,
    tFor, LP, tInt, tId("i"), ASSIGN, tNum(<<"0">>), SEMI,
    tId("i"), LT, tNum(<<"3">>), SEMI,
    tId("i"), ASSIGN, tId("i"), PLUS, tNum(<<"1">>), RP,
    LB, tId("n"), ASSIGN, tId("n"), PLUS, tId("i"), SEMI, RB,
    tPrint, tId("n"), SEMI, EOF>>

\* { int i = 0; while (i < 2) { int j = i; i = j + 1; } print i; }
SrcWhile ==
  <<LB, tInt, tId("i"), ASSIGN, tNum(<<"0">>), SEMI,
    tWhile, LP, tId("i"), LT, tNum(<<"2">>), RP,
    LB, tInt, tId("j"), ASSIGN, tId("i"), SEMI,
        tId("i"), ASSIGN, tId("j"), PLUS, tNum(<<"1">>), SEMI, RB,
    tPrint, tId("i"), SEMI, RB, EOF>>

\* { int a = 1; { int b = 2; int c = 3; print a + b + c; } int d = 4; print d; }
SrcScopes ==
  <<LB, tInt, tId("a"), ASSIGN, tNum(<<"1">>), SEMI,
    LB, tInt, tId("b"), ASSIGN, tNum(<<"2">>), SEMI,
        tInt, tId("c"), ASSIGN, tNum(<<"3">>), SEMI,
        tPrint, tId("a"), PLUS, tId("b"), PLUS, tId("c"), SEMI, RB,
    tInt, tId("d"), ASSIGN, tNum(<<"4">>), SEMI, tPrint, tId("d"), SEMI, RB, EOF>>

\* print 1 + 2 * 3; int x = 10; x = x + 5; print x; print -(7 % 4) * 6 / 2;
\* print not (1 == 2); print 2 > 1; print square(9); print genre(); clock();
SrcOperators ==
  <<tPrint, tNum(<<"1">>), PLUS, tNum(<<"2">>), STAR, tNum(<<"3">>), SEMI,
    tInt, tId("x"), ASSIGN, tNum(<<"1", "0">>), SEMI,
    tId("x"), ASSIGN, tId("x"), PLUS, tNum(<<"5">>), SEMI, tPrint, tId("x"), SEMI,
    tPrint, MINUS, LP, tNum(<<"7">>), PERCENT, tNum(<<"4">>), RP, STAR, tNum(<<"6">>),
      SLASH, tNum(<<"2">>), SEMI,
    tPrint, tNot, LP, tNum(<<"1">>), EQEQ, tNum(<<"2">>), RP, SEMI,
    tPrint, tNum(<<"2">>), GT, tNum(<<"1">>), SEMI,
    tPrint, tId("square"), LP, tNum(<<"9">>), RP, SEMI,
    tPrint, tId("genre"), LP, RP, SEMI,
    tId("clock"), LP, RP, SEMI, EOF>>

\* if (false) { S ... (BigBody times) } print 2;
\* int k = 0; while (k < 1) { k = k + 1; S ... (BigBody times) }
\* where S is  print 1+1+1+1+1+1+1+1;  (24 bytes of code)
BigBody == 11
BigStatement ==
  <<tPrint, tNum(<<"1">>)>> \o Repeat(<<PLUS, tNum(<<"1">>)>>, 7) \o <<SEMI>>
SrcBigJump ==
  <<tIf, LP, tFalse, RP, LB>> \o Repeat(BigStatement, BigBody)
    \o <<RB, tPrint, tNum(<<"2">>), SEMI,
         tInt, tId("k"), ASSIGN, tNum(<<"0">>), SEMI,
         tWhile, LP, tId("k"), LT, tNum(<<"1">>), RP, LB,
         tId("k"), ASSIGN, tId("k"), PLUS, tNum(<<"1">>), SEMI>>
    \o Repeat(BigStatement, BigBody) \o <<RB, EOF>>

\* fun r() { return r(); } r();
SrcRecursion ==
  <<tFun, tId("r"), LP, RP, LB, tReturn, tId("r"), LP, RP, SEMI, RB,
    tId("r"), LP, RP, SEMI, EOF>>

\* fun f(int a) { return a; } print 5; f(1, 2);
SrcClosureArity ==
  <<tFun, tId("f"), LP, tInt, tId("a"), RP, LB, tReturn, tId("a"), SEMI, RB,
    tPrint, tNum(<<"5">>), SEMI,
    tId("f"), LP, tNum(<<"1">>), COMMA, tNum(<<"2">>), RP, SEMI, EOF>>

\* print 7; square();
SrcNativeArity ==
  <<tPrint, tNum(<<"7">>), SEMI, tId("square"), LP, RP, SEMI, EOF>>

\* print 8; clock(3);
SrcNativeExtraArgument ==
  <<tPrint, tNum(<<"8">>), SEMI, tId("clock"), LP, tNum(<<"3">>), RP, SEMI, EOF>>

\* int a = 1; int a = 2; print a; int square = 3; print square;
SrcRedefine ==
  <<tInt, tId("a"), ASSIGN, tNum(<<"1">>), SEMI,
    tInt, tId("a"), ASSIGN, tNum(<<"2">>), SEMI, tPrint, tId("a"), SEMI,
    tInt, tId("square"), ASSIGN, tNum(<<"3">>), SEMI, tPrint, tId("square"), SEMI, EOF>>

\* print 6; u = 1;
SrcUndefinedSet ==
  <<tPrint, tNum(<<"6">>), SEMI, tId("u"), ASSIGN, tNum(<<"1">>), SEMI, EOF>>

\* clock(); while (true) square(9);
SrcNativeLoop ==
  <<tId("clock"), LP, RP, SEMI,
    tWhile, LP, tTrue, RP, tId("square"), LP, tNum(<<"9">>), RP, SEMI, EOF>>

\* fun mk() { int x = 1; int y = 0;
\*   fun mid() { y; fun inner() { x = 5; } inner(); print x; } mid(); } mk();
SrcSharedUpwards ==
  <<tFun, tId("mk"), LP, RP, LB, tInt, tId("x"), ASSIGN, tNum(<<"1">>), SEMI,
    tInt, tId("y"), ASSIGN, tNum(<<"0">>), SEMI,
    tFun, tId("mid"), LP, RP, LB, tId("y"), SEMI,
      tFun, tId("inner"), LP, RP, LB, tId("x"), ASSIGN, tNum(<<"5">>), SEMI, RB,
      tId("inner"), LP, RP, SEMI, tPrint, tId("x"), SEMI, RB,
    tId("mid"), LP, RP, SEMI, RB,
    tId("mk"), LP, RP, SEMI, EOF>>

\* fun mk() { int x = 1; int y = 0;
\*   fun mid() { y; fun inner() { print x; } x = 5; inner(); } mid(); } mk();
SrcSharedDownwards ==
  <<tFun, tId("mk"), LP, RP, LB, tInt, tId("x"), ASSIGN, tNum(<<"1">>), SEMI,
    tInt, tId("y"), ASSIGN, tNum(<<"0">>), SEMI,
    tFun, tId("mid"), LP, RP, LB, tId("y"), SEMI,
      tFun, tId("inner"), LP, RP, LB, tPrint, tId("x"), SEMI, RB,
      tId("x"), ASSIGN, tNum(<<"5">>), SEMI, tId("inner"), LP, RP, SEMI, RB,
    tId("mid"), LP, RP, SEMI, RB,
    tId("mk"), LP, RP, SEMI, EOF>>

\* { fun f(int n) { if (n < 1) return 0; return f(n - 1); } print f(2); }
SrcLocalRecursion ==
  <<LB, tFun, tId("f"), LP, tInt, tId("n"), RP, LB,
      tIf, LP, tId("n"), LT, tNum(<<"1">>), RP, tReturn, tNum(<<"0">>), SEMI,
      tReturn, tId("f"), LP, tId("n"), MINUS, tNum(<<"1">>), RP, SEMI, RB,
    tPrint, tId("f"), LP, tNum(<<"2">>), RP, SEMI, RB, EOF>>

\* print (a) + (b);   for the literals a and b, each a digit string with or
\* without a minus sign in front
SignedLiteral(negative, digits) == [negative |-> negative, digits |-> digits]
Operand(lit) ==
  <<LP>> \o (IF lit.negative THEN <<MINUS>> ELSE <<>>) \o <<tNum(lit.digits), RP>>
SrcSum(a, b) == <<tPrint>> \o Operand(a) \o <<PLUS>> \o Operand(b) \o <<SEMI, EOF>>

\* 0, 7, -7, 1073741823 and 4294967296
SumLiterals ==
  <<SignedLiteral(FALSE, <<"0">>), SignedLiteral(FALSE, <<"7">>), SignedLiteral(TRUE, <<"7">>),
    SignedLiteral(FALSE, <<"1", "0", "7", "3", "7", "4", "1", "8", "2", "3">>),
    SignedLiteral(FALSE, <<"4", "2", "9", "4", "9", "6", "7", "2", "9", "6">>)>>
SumPairs == (1..Len(SumLiterals)) \X (1..Len(SumLiterals))
SumPrograms ==
  [k \in 1..(Len(SumLiterals) * Len(SumLiterals)) |->
     SrcSum(SumLiterals[((k - 1) \div Len(SumLiterals)) + 1],
            SumLiterals[((k - 1) % Len(SumLiterals)) + 1])]

\* char c; l / r;   and   char c; l % r;   for the operands 7, true, c and
\* 0, 2, 256, c
tChar == Tok("Char", "char")
SrcDivision(l, op, r) == <<tChar, tId("c"), SEMI, l, op, r, SEMI, EOF>>
LeftOperands == <<tNum(<<"7">>), tTrue, tId("c")>>
RightOperands == <<tNum(<<"0">>), tNum(<<"2">>), tNum(<<"2", "5", "6">>), tId("c")>>
DivisionOperators == <<SLASH, PERCENT>>
DivisionPrograms ==
  [k \in 1..(Len(LeftOperands) * Len(DivisionOperators) * Len(RightOperands)) |->
     SrcDivision(
       LeftOperands[((k - 1) \div (Len(DivisionOperators) * Len(RightOperands))) + 1],
       DivisionOperators[(((k - 1) \div Len(RightOperands)) % Len(DivisionOperators)) + 1],
       RightOperands[((k - 1) % Len(RightOperands)) + 1])]

\* fun z() { print "I"; return 0; }  fun c(int i) { print "C"; return i < 2; }
\* fun s(int i) { print "S"; return i + 1; }
\* for (int i = z(); c(i); i = s(i)) { print "B"; }  print "E";
SrcForOrder ==
  <<tFun, tId("z"), LP, RP, LB, tPrint, tStr("I"), SEMI, tReturn, tNum(<<"0">>), SEMI, RB,
    tFun, tId("c"), LP, tInt, tId("i"), RP, LB, tPrint, tStr("C"), SEMI,
      tReturn, tId("i"), LT, tNum(<<"2">>), SEMI, RB,
    tFun, tId("s"), LP, tInt, tId("i"), RP, LB, tPrint, tStr("S"), SEMI,
      tReturn, tId("i"), PLUS, tNum(<<"1">>), SEMI, RB,
    tFor, LP, tInt, tId("i"), ASSIGN, tId("z"), LP, RP, SEMI,
      tId("c"), LP, tId("i"), RP, SEMI,
      tId("i"), ASSIGN, tId("s"), LP, tId("i"), RP, RP,
      LB, tPrint, tStr("B"), SEMI, RB,
    tPrint, tStr("E"), SEMI, EOF>>

\* int k = 0; for (; k < 2;) { k = k + 1; } print k;
SrcForBare ==
  <<tInt, tId("k"), ASSIGN, tNum(<<"0">>), SEMI,
    tFor, LP, SEMI, tId("k"), LT, tNum(<<"2">>), SEMI, RP,
      LB, tId("k"), ASSIGN, tId("k"), PLUS, tNum(<<"1">>), SEMI, RB,
    tPrint, tId("k"), SEMI, EOF>>

\* int x = 1;
\* fun f() { int x = 2; fun g() { print x; } g(); { int x = 3; print x; } print x; }
\* f(); print x;
SrcShadow ==
  <<tInt, tId("x"), ASSIGN, tNum(<<"1">>), SEMI,
    tFun, tId("f"), LP, RP, LB,
      tInt, tId("x"), ASSIGN, tNum(<<"2">>), SEMI,
      tFun, tId("g"), LP, RP, LB, tPrint, tId("x"), SEMI, RB,
      tId("g"), LP, RP, SEMI,
      LB, tInt, tId("x"), ASSIGN, tNum(<<"3">>), SEMI, tPrint, tId("x"), SEMI, RB,
      tPrint, tId("x"), SEMI, RB,
    tId("f"), LP, RP, SEMI, tPrint, tId("x"), SEMI, EOF>>

\* str s; print s; print "a"; print s; print "b";
tStrType == Tok("Str", "str")
SrcPrintEmpty ==
  <<tStrType, tId("s"), SEMI, tPrint, tId("s"), SEMI, tPrint, tStr("a"), SEMI,
    tPrint, tId("s"), SEMI, tPrint, tStr("b"), SEMI, EOF>>

Programs ==
  <<SrcMakeCounter, SrcCapture, SrcCaptureThenAssign, SrcSetGet, SrcAdd, SrcSub,
    SrcCompileError, SrcNestedCompileError, SrcRuntimeError, SrcShortCircuit,
    SrcLongCircuit, SrcIf, SrcFor, SrcWhile, SrcScopes, SrcOperators, SrcBigJump,
    SrcRecursion, SrcClosureArity, SrcNativeArity, SrcNativeExtraArgument,
    SrcRedefine, SrcUndefinedSet, SrcNativeLoop, SrcSharedUpwards,
    SrcSharedDownwards, SrcLocalRecursion, SrcForOrder,
    SrcForBare, SrcShadow, SrcPrintEmpty>> \o SumPrograms \o DivisionPrograms

ProgramOf(src) == IndexOf(Programs, src, 1)

(***************************************************************************)
(* Virtual machine state                                                   *)
(***************************************************************************)
kMaxCallFrames == 64

\* VirtualMachine::ClockNative reads the host clock
ClockReadings == {1000, 1001}

\* VirtualMachine::DefineNative : globals_.insert keeps an existing entry
Insert(g, name, value) ==
  IF name \in DOMAIN g THEN g
  ELSE [n \in DOMAIN g \cup {name} |-> IF n = name THEN value ELSE g[n]]

\* VirtualMachine::DefineNativeFunctions
NativeGlobals ==
  Insert(Insert(Insert(<<>>, "clock", NativeV("clock", 0)),
                "square", NativeV("square", 1)),
         "genre", NativeV("genre", 0))

\* CallFrame( closure, ip, slots, names ) : ip is an offset into the block's
\* code, slots the index in stack_ (and names_) of the frame's slot zero
CallFrame(closure, slots) == [closure |-> closure, ip |-> 0, slots |-> slots]

NoRead == [read |-> FALSE]
HistInit ==
  [out0 |-> "", globals0 |-> NativeGlobals,   \* output_ and globals_ when Interpret began
   frames0 |-> 0,                            \* size of frames_ when Interpret began
   compileFailed |-> FALSE,                  \* Compile caught a CompilerError
   dispatched |-> 0,                         \* instructions dispatched by this Interpret
   setLog |-> <<>>,                          \* per frame: upvalue index -> value stored
   upRead |-> NoRead,                        \* the last step, if it was a GetUpvalue
   rootPopped |-> NoRead,                    \* value popped by the root Return
   captured |-> {},                          \* values copied by Closure instructions
   heights |-> {},                           \* stack_.size() above the frame's slots, per ip;
                                             \* left: in a frame an earlier Interpret left
   printed |-> <<>>,                         \* the strings Print appended to output_
   last |-> [op |-> -1]]                     \* the instruction the last step executed

EmptyCompiler ==
  [NewCompiler(<<>>, <<>>) EXCEPT !.blocks = <<>>, !.compStack = <<>>]
NoFunction == NewFunction(0)
NoResult == [kind |-> "none"]

Init ==
  /\ phase = "idle"
  /\ comp = EmptyCompiler
  /\ main = NoFunction
  /\ frames = <<>>
  /\ stack = <<>>
  /\ names = <<>>
  /\ globals = NativeGlobals
  /\ output = ""
  /\ result = NoResult
  /\ prog = 0
  /\ runs = 0
  /\ hist = HistInit

(***************************************************************************)
(* Interpret: Compiler::Compile, then Push, Call and Run                   *)
(***************************************************************************)
\* VirtualMachine::Interpret, up to the construction of the Compiler and the
\* lexer's token list
Interpret(p) ==
  /\ phase = "idle"
  /\ runs < MaxRuns
  /\ phase' = "compiling"
  /\ comp' = [NewCompiler(Programs[p], comp.blocks)
                EXCEPT !.jumpLog = comp.jumpLog, !.circuitLog = comp.circuitLog,
                       !.paramLog = comp.paramLog, !.closureLog = comp.closureLog,
                       !.ifLog = comp.ifLog, !.forLog = comp.forLog,
                       !.boundaryLog = comp.boundaryLog]
  /\ prog' = p
  /\ runs' = runs + 1
  /\ result' = NoResult
  /\ hist' = [HistInit EXCEPT !.out0 = output, !.globals0 = globals,
                              !.captured = hist.captured,
                              !.printed = hist.printed,
                              !.frames0 = Len(frames),
                              !.setLog = [i \in 1..Len(frames) |-> <<>>]]
  /\ UNCHANGED <<main, frames, stack, names, globals, output>>

\* Compiler::Compile : one iteration of  while( !Match( EndOfFile ) ) Declaration()
CompileDeclaration ==
  /\ phase = "compiling"
  /\ Ok(comp) /\ ~comp.stalled
  /\ ~Matches(comp, {"EndOfFile"})
  /\ comp' = Iteration(comp, Declaration(comp))
  /\ UNCHANGED <<phase, main, frames, stack, names, globals, output, result,
                 prog, runs, hist>>

\* Compiler::Compile : the loop ends, EmitReturn, return GetC().GetFunction()
CompileReturn ==
  /\ phase = "compiling"
  /\ Ok(comp) /\ ~comp.stalled
  /\ Matches(comp, {"EndOfFile"})
  /\ comp' = EmitReturn(Advance(comp))
  /\ main' = GetC(comp).function
  /\ phase' = "compiled"
  /\ UNCHANGED <<frames, stack, names, globals, output, result, prog, runs, hist>>

\* what reading through a dangling pointer, past the end of a buffer or after
\* a failed assert can lead to: the process is stopped, or it goes on in an
\* unspecified state.  Both end the behaviour in the model.
UBOutcomes == {"aborted", "undefined"}

\* Compiler::Compile : catch( CompilerError& ) returns GetC().GetFunction().
\* When the error was thrown inside FunctionCall, the top of compStack_ points
\* to the FunctionInfo local of a frame that has been unwound.
CompileCatch ==
  /\ phase = "compiling"
  /\ ~Ok(comp)
  /\ hist' = [hist EXCEPT !.compileFailed = TRUE]
  /\ IF Len(comp.compStack) = 1
       THEN /\ main' = GetC(comp).function
            /\ phase' = "compiled"
       ELSE /\ main' = main
            /\ \E o \in UBOutcomes : phase' = o
  /\ UNCHANGED <<comp, frames, stack, names, globals, output, result, prog, runs>>

\* VirtualMachine.h : kMaxStackValues, the capacity of stack_
kMaxStackValues == kMaxCallFrames * 64

\* VirtualMachine::Push
Push(stk, value) == Append(stk, value)
PushName(nms, name) == Append(nms, name)

\* stack_ is an inplace_vector of kMaxStackValues values and names_ one of
\* kMaxCallFrames names: Push has room when both push_back calls have
HasRoom(stk, nms) == Len(stk) < kMaxStackValues /\ Len(nms) < kMaxCallFrames

\* Push at capacity.  stack_.push_back comes first, then names_.push_back;
\* the push_back that finds its container full throws out of Run, or stops
\* the process, or writes past the storage
PushFails(stk, value, nms) ==
  LET stack1 == IF Len(stk) < kMaxStackValues THEN Push(stk, value) ELSE stk
  IN /\ \/ /\ phase' = "idle"
           /\ result' = [kind |-> "error", msg |-> "bad_alloc"]
           /\ stack' = stack1
        \/ /\ \E o \in UBOutcomes : phase' = o
           /\ UNCHANGED <<result, stack>>
     /\ UNCHANGED <<comp, main, frames, names, globals, output, prog, runs, hist>>

\* VirtualMachine::Interpret : Closure main{...}; Push( Value(main), "fn main" );
\* Call( main, 0 ); Run()
InterpretCall ==
  /\ phase = "compiled"
  /\ LET closure == NewClosure(main)
         stack1 == Push(stack, ClosureV(closure))
     IN IF ~HasRoom(stack, names) THEN PushFails(stack, ClosureV(closure), names)
        ELSE /\ stack' = stack1
             /\ names' = PushName(names, "fn main")
             /\ IF 0 # main.paramCount
                  THEN /\ phase' = "idle"
                       /\ result' = [kind |-> "error", msg |-> "Expected arguments"]
                       /\ UNCHANGED <<frames, hist>>
                ELSE IF Len(frames) = kMaxCallFrames
                  THEN /\ phase' = "idle"
                       /\ result' = [kind |-> "error", msg |-> "Stack overflow"]
                       /\ UNCHANGED <<frames, hist>>
                ELSE /\ frames' = Append(frames, CallFrame(closure, Len(stack1) - 0 - 1))
                     /\ hist' = [hist EXCEPT !.setLog = Append(@, <<>>)]
                     /\ phase' = "running"
                     /\ result' = result
             /\ UNCHANGED <<comp, main, globals, output, prog, runs>>

(***************************************************************************)
(* VirtualMachine::Run : one action per OpCode                             *)
(***************************************************************************)
\* frames_.back(), its function's block, and the bytes at its ip
Frame == frames[Len(frames)]
ByteCodeBlockOf(closure) == comp.blocks[closure.func.block]
Code == ByteCodeBlockOf(Frame.closure).code
Constants == ByteCodeBlockOf(Frame.closure).constants

\* CallFrame::GetByte at ip + k
GetByte(k) == Code[Frame.ip + k + 1]
\* ByteCodeBlock::GetConstant
GetConstant(index) == Constants[index + 1]
\* the operand read low byte first
ReadShortLowFirst == GetByte(2) * 256 + GetByte(1)

\* CallFrame::ReadShort : the two bytes after the opcode, high byte first
ReadShort == GetByte(1) * 256 + GetByte(2)
\* CallFrame::GetSlot / GetName
GetSlot(index) == stack[Frame.slots + index + 1]
GetName(index) == names[Frame.slots + index + 1]
\* VirtualMachine::Peek
Peek(offset) == stack[Len(stack) - offset]
\* VirtualMachine::Pop removes the top of stack_ and of names_
Pop(stk) == Front(stk)

\* number of operand bytes the case of an opcode reads
OperandBytes(op) ==
  CASE op \in {OpConstant, OpGetLocal, OpSetLocal, OpGetGlobal, OpDefineGlobal,
               OpSetGlobal, OpGetUpvalue, OpSetUpvalue, OpCall, OpClosure} -> 1
    [] op \in {OpJump, OpJumpIfFalse, OpLoop} -> 2
    [] OTHER -> 0

\* the instruction at ip lies inside the code
Fetchable ==
  /\ phase = "running"
  /\ frames # <<>>
  /\ Frame.ip < Len(Code)
  /\ Frame.ip + OperandBytes(GetByte(0)) < Len(Code)

HasConstant(index, type) ==
  /\ index < Len(Constants)
  /\ GetConstant(index).t = type

\* the upvalue operands of a Closure instruction are inside the code and name
\* slots and upvalues that exist
ClosureOperandsDefined ==
  /\ HasConstant(GetByte(1), "Closure")
  /\ LET n == GetConstant(GetByte(1)).c.func.upvalueCount
     IN /\ Frame.ip + 1 + 2 * n < Len(Code)
        /\ \A i \in 0..(n - 1) :
             LET isLocal == GetByte(2 + 2 * i)
                 slotIndex == GetByte(3 + 2 * i)
             IN IF isLocal # 0
                  THEN Frame.slots + slotIndex < Len(stack)
                  ELSE /\ slotIndex < Len(Frame.closure.upvalues)
                       /\ ~Frame.closure.upvalues[slotIndex + 1].null

\* the asserts and unchecked indexing of each case hold
Defined(op) ==
  CASE op = OpConstant -> GetByte(1) < Len(Constants)
    [] op \in {OpPop, OpNegate, OpNot, OpPrint, OpJumpIfFalse} -> stack # <<>>
    [] op = OpGetLocal -> Frame.slots + GetByte(1) < Len(stack)
    [] op = OpSetLocal -> stack # <<>> /\ Frame.slots + GetByte(1) < Len(stack)
    [] op = OpGetGlobal -> HasConstant(GetByte(1), "Str")
    [] op = OpDefineGlobal -> HasConstant(GetByte(1), "Str") /\ stack # <<>>
    [] op = OpSetGlobal -> HasConstant(GetByte(1), "Str") /\ stack # <<>>
    [] op = OpGetUpvalue -> /\ GetByte(1) < Len(Frame.closure.upvalues)
                            /\ ~Frame.closure.upvalues[GetByte(1) + 1].null
    [] op = OpSetUpvalue -> stack # <<>> /\ GetByte(1) < Len(Frame.closure.upvalues)
    [] op \in {OpIsEqual, OpGreater, OpLess, OpAdd, OpSubtract, OpMultiply,
               OpDivide, OpModulus} -> Len(stack) >= 2
    [] op = OpCall -> GetByte(1) < Len(stack)
    [] op = OpClosure -> ClosureOperandsDefined
    [] op = OpReturn -> /\ stack # <<>>
                        /\ Len(frames) > 1 => /\ Len(stack) >= 2
                                              /\ Frame.slots <= Len(stack) - 2
    [] OTHER -> op \in {OpTrue, OpFalse, OpEmpty, OpJump, OpLoop}

\* the guard of the action of opcode op
Executes(op) == Fetchable /\ GetByte(0) = op /\ Defined(op)

\* the observation of one dispatched instruction
Dispatch(op) ==
  [hist EXCEPT !.dispatched = @ + 1, !.upRead = NoRead,
               !.heights = @ \cup {[block |-> Frame.closure.func.block, ip |-> Frame.ip,
                                    height |-> Len(stack) - Frame.slots,
                                    left |-> Len(frames) <= hist.frames0]},
               !.last = [op |-> op, block |-> Frame.closure.func.block,
                         ip |-> Frame.ip, depth |-> Len(frames),
                         top |-> IF stack = <<>> THEN NullCell ELSE Cell(Peek(0))]]

\* CallFrame::AdvanceIP on frames_.back()
AdvanceIP(fs, count) == [fs EXCEPT ![Len(fs)].ip = @ + count]

\* a case that only moves the ip and changes the value stack
Continue(op, stack1, names1) ==
  /\ frames' = AdvanceIP(frames, 1 + OperandBytes(op))
  /\ stack' = stack1
  /\ names' = names1
  /\ hist' = Dispatch(op)
  /\ UNCHANGED <<phase, comp, main, globals, output, result, prog, runs>>

\* an exception leaves Run and Interpret; nothing is unwound
RuntimeError(op, stack1, names1, msg) ==
  /\ phase' = "idle"
  /\ result' = [kind |-> "error", msg |-> msg]
  /\ frames' = AdvanceIP(frames, 1 + OperandBytes(op))
  /\ stack' = stack1
  /\ names' = names1
  /\ hist' = Dispatch(op)
  /\ UNCHANGED <<comp, main, globals, output, prog, runs>>

\* a case that ends in Push( value, name )
PushValue(op, stk, value, nms, name) ==
  IF HasRoom(stk, nms)
    THEN Continue(op, Push(stk, value), PushName(nms, name))
    ELSE PushFails(stk, value, nms)

\* the ip is outside the code, or an assert or unchecked index of the case fails
UndefinedBehaviour ==
  /\ phase = "running"
  /\ ~(Fetchable /\ Defined(GetByte(0)))
  /\ \E o \in UBOutcomes : phase' = o
  /\ UNCHANGED <<comp, main, frames, stack, names, globals, output, result,
                 prog, runs, hist>>

DoConstant ==
  /\ Executes(OpConstant)
  /\ PushValue(OpConstant, stack, GetConstant(GetByte(1)), names, "const")

DoTrue ==
  /\ Executes(OpTrue)
  /\ PushValue(OpTrue, stack, BoolV(TRUE), names, "true")

DoFalse ==
  /\ Executes(OpFalse)
  /\ PushValue(OpFalse, stack, BoolV(FALSE), names, "false")

DoEmpty ==
  /\ Executes(OpEmpty)
  /\ PushValue(OpEmpty, stack, IntV(0), names, "empty")

DoPop ==
  /\ Executes(OpPop)
  /\ Continue(OpPop, Pop(stack), Pop(names))

DoGetLocal ==
  /\ Executes(OpGetLocal)
  /\ PushValue(OpGetLocal, stack, GetSlot(GetByte(1)), names, GetName(GetByte(1)))

\* CallFrame::SetSlot also clears the slot's name
DoSetLocal ==
  /\ Executes(OpSetLocal)
  /\ Continue(OpSetLocal, SetAt(stack, Frame.slots + GetByte(1) + 1, Peek(0)),
              SetAt(names, Frame.slots + GetByte(1) + 1, ""))

\* CallFrame::ReadString
ReadString == GetConstant(GetByte(1)).s

DoGetGlobal ==
  /\ Executes(OpGetGlobal)
  /\ IF ReadString \notin DOMAIN globals
       THEN RuntimeError(OpGetGlobal, stack, names, "Undefined variable")
       ELSE PushValue(OpGetGlobal, stack, globals[ReadString], names, ReadString)

\* globals_.insert does not replace an existing entry
DoDefineGlobal ==
  /\ Executes(OpDefineGlobal)
  /\ globals' = Insert(globals, ReadString, Peek(0))
  /\ frames' = AdvanceIP(frames, 2)
  /\ stack' = Pop(stack)
  /\ names' = Pop(names)
  /\ hist' = Dispatch(OpDefineGlobal)
  /\ UNCHANGED <<phase, comp, main, output, result, prog, runs>>

\* a SetGlobal that creates the entry it does not find
SetGlobalCreating ==
  /\ Executes(OpSetGlobal)
  /\ globals' = [n \in DOMAIN globals \cup {ReadString} |->
                   IF n = ReadString THEN Peek(0) ELSE globals[n]]
  /\ frames' = AdvanceIP(frames, 2)
  /\ hist' = Dispatch(OpSetGlobal)
  /\ UNCHANGED <<phase, comp, main, stack, names, output, result, prog, runs>>

\* OpCode::SetGlobal : globals_.find, then throw or assign through the iterator
DoSetGlobal ==
  /\ Executes(OpSetGlobal)
  /\ IF ReadString \notin DOMAIN globals
       THEN /\ RuntimeError(OpSetGlobal, stack, names, "Undefined variable")
            /\ globals' = globals
       ELSE /\ globals' = [globals EXCEPT ![ReadString] = Peek(0)]
            /\ frames' = AdvanceIP(frames, 2)
            /\ hist' = Dispatch(OpSetGlobal)
            /\ UNCHANGED <<phase, comp, main, stack, names, output, result, prog, runs>>

\* Closure::GetUpvalue on the copy returned by CallFrame::GetClosure
GetUpvalue(closure, slotIndex) == closure.upvalues[slotIndex + 1].val
\* Closure::SetUpvalue
SetUpvalue(closure, slotIndex, slot) ==
  [closure EXCEPT !.upvalues[slotIndex + 1] = Cell(slot)]

\* the value a SetUpvalue of this invocation stored for upvalue u, if any
StoredUpvalue(u) ==
  IF u \in DOMAIN hist.setLog[Len(frames)]
    THEN Cell(hist.setLog[Len(frames)][u]) ELSE NullCell

DoGetUpvalue ==
  /\ Executes(OpGetUpvalue)
  /\ LET upvalue == GetUpvalue(Frame.closure, GetByte(1))
     IN IF ~HasRoom(stack, names) THEN PushFails(stack, upvalue, names)
        ELSE /\ frames' = AdvanceIP(frames, 2)
             /\ stack' = Push(stack, upvalue)
             /\ names' = PushName(names, "upvalue")
             /\ hist' = [Dispatch(OpGetUpvalue) EXCEPT
                           !.upRead = [read |-> TRUE, index |-> GetByte(1),
                                       stored |-> StoredUpvalue(GetByte(1)),
                                       pushed |-> upvalue]]
             /\ UNCHANGED <<phase, comp, main, globals, output, result, prog, runs>>

\* frame->GetClosure() returns the closure by value: SetUpvalue changes that
\* temporary, and closure_ of the frame stays as it was
StoreUpvalue(fs, slotIndex, upvalue) ==
  LET temporary == SetUpvalue(fs[Len(fs)].closure, slotIndex, upvalue)
  IN fs

\* a SetUpvalue that stores through to the local the upvalue was captured
\* from, taken to be slot one of the calling frame
SetUpvalueThroughSlot ==
  /\ Executes(OpSetUpvalue)
  /\ Len(frames) >= 2
  /\ frames' = AdvanceIP(frames, 2)
  /\ stack' = [stack EXCEPT ![frames[Len(frames) - 1].slots + 2] = Peek(0)]
  /\ hist' = Dispatch(OpSetUpvalue)
  /\ UNCHANGED <<phase, comp, main, names, globals, output, result, prog, runs>>

DoSetUpvalue ==
  /\ Executes(OpSetUpvalue)
  /\ frames' = AdvanceIP(StoreUpvalue(frames, GetByte(1), Peek(0)), 2)
  /\ hist' = [Dispatch(OpSetUpvalue) EXCEPT
                !.setLog[Len(frames)] =
                   [u \in DOMAIN @ \cup {GetByte(1)} |->
                      IF u = GetByte(1) THEN Peek(0) ELSE @[u]]]
  /\ UNCHANGED <<phase, comp, main, stack, names, globals, output, result, prog, runs>>

\* VirtualMachine::LogicalBinaryOp
LogicalBinaryOp(op, value) ==
  Continue(op, Push(Pop(Pop(stack)), BoolV(value)),
           PushName(Pop(Pop(names)), "LogicalBinaryOp"))

DoIsEqual ==
  /\ Executes(OpIsEqual)
  /\ LogicalBinaryOp(OpIsEqual, ValueEqual(Peek(1), Peek(0)))

DoGreater ==
  /\ Executes(OpGreater)
  /\ LogicalBinaryOp(OpGreater, ValueLess(Peek(0), Peek(1)))

DoLess ==
  /\ Executes(OpLess)
  /\ LogicalBinaryOp(OpLess, ValueLess(Peek(1), Peek(0)))

\* VirtualMachine::BinaryOp : rhs and lhs are popped before the operator runs
BinaryOp(op, r) ==
  IF r.ok
    THEN Continue(op, Push(Pop(Pop(stack)), r.v), PushName(Pop(Pop(names)), "BinaryOp"))
    ELSE RuntimeError(op, Pop(Pop(stack)), Pop(Pop(names)), r.msg)

DoAdd ==
  /\ Executes(OpAdd)
  /\ BinaryOp(OpAdd, ValueAdd(Peek(1), Peek(0)))

DoSubtract ==
  /\ Executes(OpSubtract)
  /\ BinaryOp(OpSubtract, ValueSubtract(Peek(1), Peek(0)))

DoMultiply ==
  /\ Executes(OpMultiply)
  /\ BinaryOp(OpMultiply, ValueMultiply(Peek(1), Peek(0)))

DoDivide ==
  /\ Executes(OpDivide)
  /\ BinaryOp(OpDivide, ValueDivide(Peek(1), Peek(0)))

DoModulus ==
  /\ Executes(OpModulus)
  /\ BinaryOp(OpModulus, ValueModulus(Peek(1), Peek(0)))

\* VirtualMachine::UnaryOp : stack_.back() is replaced, its name stays
DoNegate ==
  /\ Executes(OpNegate)
  /\ LET r == ValueNegate(Peek(0))
     IN IF r.ok THEN Continue(OpNegate, SetAt(stack, Len(stack), r.v), names)
        ELSE RuntimeError(OpNegate, stack, names, r.msg)

\* VirtualMachine::LogicalUnaryOp
DoNot ==
  /\ Executes(OpNot)
  /\ Continue(OpNot, SetAt(stack, Len(stack), BoolV(~IsTrue(Peek(0)))), names)

DoPrint ==
  /\ Executes(OpPrint)
  /\ output' = (IF output # "" THEN output \o "\n" ELSE output)
                  \o ValueToString(Peek(0))
  /\ frames' = AdvanceIP(frames, 1)
  /\ stack' = Pop(stack)
  /\ names' = Pop(names)
  /\ hist' = [Dispatch(OpPrint) EXCEPT !.printed = Append(@, ValueToString(Peek(0)))]
  /\ UNCHANGED <<phase, comp, main, globals, result, prog, runs>>

DoJump ==
  /\ Executes(OpJump)
  /\ frames' = AdvanceIP(AdvanceIP(frames, 3), ReadShort)
  /\ hist' = Dispatch(OpJump)
  /\ UNCHANGED <<phase, comp, main, stack, names, globals, output, result, prog, runs>>

DoJumpIfFalse ==
  /\ Executes(OpJumpIfFalse)
  /\ frames' = IF ~IsTrue(Peek(0)) THEN AdvanceIP(AdvanceIP(frames, 3), ReadShort)
               ELSE AdvanceIP(frames, 3)
  /\ hist' = Dispatch(OpJumpIfFalse)
  /\ UNCHANGED <<phase, comp, main, stack, names, globals, output, result, prog, runs>>

DoLoop ==
  /\ Executes(OpLoop)
  /\ frames' = AdvanceIP(AdvanceIP(frames, 3), -ReadShort)
  /\ hist' = Dispatch(OpLoop)
  /\ UNCHANGED <<phase, comp, main, stack, names, globals, output, result, prog, runs>>

\* a native call whose result is the value on top of the stack
NativeLeavesArgument(function) == {Good(Peek(0))}

\* the natives: ClockNative, SquareNative, GenreNative applied to the
\* arguments on top of the stack
NativeResults(function) ==
  CASE function.name = "clock" -> {Good(IntV(t)) : t \in ClockReadings}
    [] function.name = "square" -> {ValueMultiply(Peek(0), Peek(0))}
    [] OTHER -> {Good(StrV("Rock"))}

\* a Call whose frame starts at the first argument instead of the callee
CallFromFirstArgument(fs, closure, argCount) ==
  Append(fs, CallFrame(closure, Len(stack) - argCount))

\* a Call that runs the callee without a frame of its own
CallWithoutFrame(fs, closure, argCount) == fs

\* VirtualMachine::Call : the new frame's slot zero is the callee
VMCall(fs, closure, argCount) ==
  Append(fs, CallFrame(closure, Len(stack) - argCount - 1))

\* an arity check that lets every argument count through
AnyArgCount(argCount, paramCount) == TRUE

\* VirtualMachine::Call and CallValue : the test  argCount != GetParamCount()
\* passes
ArgCountMatches(argCount, paramCount) == argCount = paramCount

\* OpCode::Call with VirtualMachine::CallValue
DoCall ==
  /\ Executes(OpCall)
  /\ LET argCount == GetByte(1)
         callee == Peek(argCount)
     IN CASE callee.t = "Closure" ->
               IF ~ArgCountMatches(argCount, callee.c.func.paramCount)
                 THEN RuntimeError(OpCall, stack, names, "Expected arguments")
               ELSE IF Len(frames) = kMaxCallFrames
                 THEN RuntimeError(OpCall, stack, names, "Stack overflow")
               ELSE /\ frames' = VMCall(AdvanceIP(frames, 2), callee.c, argCount)
                    /\ hist' = [Dispatch(OpCall) EXCEPT !.setLog = Append(@, <<>>)]
                    /\ UNCHANGED <<phase, comp, main, stack, names, globals,
                                   output, result, prog, runs>>
          [] callee.t = "NativeFunc" ->
               IF ~ArgCountMatches(argCount, callee.argCount)
                 THEN RuntimeError(OpCall, stack, names, "Expected arguments")
               ELSE \E r \in NativeResults(callee) :
                      IF r.ok
                        THEN PushValue(OpCall, Take(stack, Len(stack) - argCount - 1),
                                       r.v, names, "native fn result")
                        ELSE RuntimeError(OpCall, stack, names, r.msg)
          [] OTHER -> RuntimeError(OpCall, stack, names, "Can only call functions")

\* a capture that keeps no copy of the local: the closure gets an empty value
CaptureNothing(localValue) == IntV(0)

\* VirtualMachine::CaptureUpvalue
CaptureUpvalue(localValue) == localValue

RECURSIVE StoreUpvalues(_, _, _)
\* the loop of OpCode::Closure : upvalue i is a copy of a slot of the running
\* frame (VirtualMachine::CaptureUpvalue) or of an upvalue of its closure
StoreUpvalues(closure, i, n) ==
  IF i >= n THEN closure
  ELSE LET isLocal == GetByte(2 + 2 * i)
           slotIndex == GetByte(3 + 2 * i)
           capture == IF isLocal # 0 THEN CaptureUpvalue(GetSlot(slotIndex))
                      ELSE GetUpvalue(Frame.closure, slotIndex)
       IN StoreUpvalues(SetUpvalue(closure, i, capture), i + 1, n)

DoClosure ==
  /\ Executes(OpClosure)
  /\ LET closureValue == GetConstant(GetByte(1))
         n == closureValue.c.func.upvalueCount
         closure == StoreUpvalues(closureValue.c, 0, n)
     IN IF ~HasRoom(stack, names) THEN PushFails(stack, ClosureV(closure), names)
        ELSE /\ frames' = AdvanceIP(frames, 2 + 2 * n)
             /\ stack' = Push(stack, ClosureV(closure))
             /\ names' = PushName(names, closure.func.name)
             /\ hist' = [Dispatch(OpClosure) EXCEPT
                           !.captured = @ \cup
                              {[block |-> closure.func.block, index |-> i,
                                value |-> IF GetByte(2 + 2 * i) # 0
                                            THEN GetSlot(GetByte(3 + 2 * i))
                                            ELSE GetUpvalue(Frame.closure,
                                                            GetByte(3 + 2 * i))] :
                                 i \in 0..(n - 1)}]
             /\ UNCHANGED <<phase, comp, main, globals, output, result, prog, runs>>

\* a Return that pops the arguments but not the callee in slot zero
PopArguments(stk, frame) == Take(stk, frame.slots + 1)

\* OpCode::Return, the loop  for( i = 0; i < argCount + 1; ++i ) Pop()  that
\* follows the Pop of the return value: the callee in slot zero and everything
\* above it are removed
PopFrameValues(stk, frame) == Take(stk, frame.slots)

\* OpCode::Return : leaving main clears frames_ and stack_ and returns true;
\* otherwise the callee, its arguments and its locals are popped and the
\* return value pushed
DoReturn ==
  /\ Executes(OpReturn)
  /\ LET fnReturnValue == Peek(0)
     IN IF Len(frames) = 1
          THEN /\ frames' = <<>>
               /\ stack' = <<>>
               /\ names' = Pop(names)
               /\ phase' = "idle"
               /\ result' = [kind |-> "value", v |-> BoolV(TRUE)]
               /\ hist' = [Dispatch(OpReturn) EXCEPT
                             !.rootPopped = [read |-> TRUE, v |-> fnReturnValue],
                             !.setLog = <<>>]
          ELSE /\ frames' = Front(frames)
               /\ stack' = Push(PopFrameValues(stack, Frame), fnReturnValue)
               /\ names' = PushName(Take(names, Len(names) - (Len(stack) - Frame.slots)),
                                    "fn return")
               /\ hist' = [Dispatch(OpReturn) EXCEPT !.setLog = Front(@)]
               /\ UNCHANGED <<phase, result>>
  /\ UNCHANGED <<comp, main, globals, output, prog, runs>>

(***************************************************************************)
(* The specification                                                       *)
(***************************************************************************)
Next ==
  \/ \E p \in 1..Len(Programs) : Interpret(p)
  \/ CompileDeclaration
  \/ CompileReturn
  \/ CompileCatch
  \/ InterpretCall
  \/ UndefinedBehaviour
  \/ DoConstant
  \/ DoTrue
  \/ DoFalse
  \/ DoEmpty
  \/ DoPop
  \/ DoGetLocal
  \/ DoSetLocal
  \/ DoGetGlobal
  \/ DoDefineGlobal
  \/ DoSetGlobal
  \/ DoGetUpvalue
  \/ DoSetUpvalue
  \/ DoIsEqual
  \/ DoGreater
  \/ DoLess
  \/ DoAdd
  \/ DoSubtract
  \/ DoMultiply
  \/ DoDivide
  \/ DoModulus
  \/ DoNegate
  \/ DoNot
  \/ DoPrint
  \/ DoJump
  \/ DoJumpIfFalse
  \/ DoLoop
  \/ DoCall
  \/ DoClosure
  \/ DoReturn

Spec == Init /\ [][Next]_vars

(***************************************************************************)
(* Compiler::Compile on its own, over generated token lists                *)
(***************************************************************************)
MaxFragments == 3

\* pieces of source text, as tokens; a source is a concatenation of pieces
Fragments ==
  << <<SEMI>>,
     <<LB>>,
     <<RB>>,
     <<tPrint, tNum(<<"1">>), SEMI>>,
     <<tInt, tId("x"), ASSIGN, tNum(<<"1">>), SEMI, tPrint, tId("x"), SEMI>>,
     <<tFun, tId("f"), LP, tInt, tId("a"), RP, LB>>,
     <<tWhile, LP, tId("x"), RP>>,
     <<tIf, LP, tId("x"), RP>>,
     <<tFor, LP, SEMI, SEMI, RP>>,
     <<tId("x"), ASSIGN, tId("f"), LP, tNum(<<"1">>), COMMA, tId("x"), RP>>,
     <<tReturn, tId("x"), SEMI>>,
     <<tElse>> >>

RECURSIVE Sources(_)
\* the token lists made of at most n pieces
Sources(n) ==
  IF n = 0 THEN {<<>>}
  ELSE LET Longer(shorter) ==
             shorter \cup {t \o Fragments[i] : t \in shorter, i \in DOMAIN Fragments}
       IN Longer(Sources(n - 1))

\* Lexer::ExtractTokens ends every token list with EndOfFile
ExtractTokens(text) == text \o <<EOF>>

\* a Compiler constructed and Compile called on a generated source
InitCompile ==
  /\ phase = "compiling"
  /\ comp \in {NewCompiler(ExtractTokens(text), <<>>) : text \in Sources(MaxFragments)}
  /\ main = NoFunction
  /\ frames = <<>>
  /\ stack = <<>>
  /\ names = <<>>
  /\ globals = NativeGlobals
  /\ output = ""
  /\ result = NoResult
  /\ prog = 0
  /\ runs = 0
  /\ hist = HistInit

NextCompile ==
  \/ CompileDeclaration
  \/ CompileReturn
  \/ CompileCatch

SpecCompile == InitCompile /\ [][NextCompile]_vars

(***************************************************************************)
(* ByteCodeBlock::AddConstant on its own: a block whose pool already holds *)
(* some distinct constants receives further constants                      *)
(***************************************************************************)
MaxAdds == 3

\* pool sizes a compilation can have reached: small ones and ones next to
\* the limit of AddConstant
PoolSizes == {0, 1, 2, kMaxConstants - 3, kMaxConstants - 2, kMaxConstants - 1}

\* the pool left by a block whose code named the numbers 1..n
NumberPool(n) == [i \in 1..n |-> IntV(i)]

\* constants handed to AddConstant: numbers inside and outside the pools, a
\* string, the string spelling a number, and two closures
AddedConstants ==
  {IntV(1), IntV(2), IntV(1000), IntV(1001), StrV("a"), StrV("1"),
   ClosureV(NewClosure(NewFunction(7))), ClosureV(NewClosure(NewFunction(8)))}

\* a compiler whose current block holds the given pool
CompilerWithPool(pool) ==
  [NewCompiler(<<EOF>>, <<>>) EXCEPT !.blocks[1].constants = pool]

NoAdd == [adds |-> 0]

InitConstants ==
  /\ phase = "compiling"
  /\ comp \in {CompilerWithPool(NumberPool(n)) : n \in PoolSizes}
  /\ main = NoFunction
  /\ frames = <<>>
  /\ stack = <<>>
  /\ names = <<>>
  /\ globals = NativeGlobals
  /\ output = ""
  /\ result = NoResult
  /\ prog = 0
  /\ runs = 0
  /\ hist = NoAdd

\* one call of Compiler::MakeConstant; hist records the call
MakeConstantCall(value) ==
  /\ phase = "compiling"
  /\ Ok(comp)
  /\ hist.adds < MaxAdds
  /\ comp' = MakeConstant(comp, value)
  /\ hist' = [adds |-> hist.adds + 1, value |-> value]
  /\ UNCHANGED <<phase, main, frames, stack, names, globals, output, result,
                 prog, runs>>

NextConstants == \E value \in AddedConstants : MakeConstantCall(value)

SpecConstants == InitConstants /\ [][NextConstants]_vars

(***************************************************************************)
(* Compiler::Compile on assignments and variable declarations, in the      *)
(* scopes a name can resolve in                                            *)
(***************************************************************************)
tZero == tNum(<<"0">>)
DeclareABC ==
  <<tInt, tId("a"), ASSIGN, tZero, SEMI, tInt, tId("b"), ASSIGN, tZero, SEMI,
    tInt, tId("c"), ASSIGN, tZero, SEMI>>

\* int a = 0; int b = 0; int c = 0; S        a, b and c are globals
AtGlobal(S) == DeclareABC \o S
\* { int a = 0; int b = 0; int c = 0; S }    a, b and c are locals of the script
InBlock(S) == <<LB>> \o DeclareABC \o S \o <<RB>>
\* fun g(int a) { int b = 0; int c = 0; S }  a is a parameter, b and c locals
InFunction(S) ==
  <<tFun, tId("g"), LP, tInt, tId("a"), RP, LB,
    tInt, tId("b"), ASSIGN, tZero, SEMI, tInt, tId("c"), ASSIGN, tZero, SEMI>>
    \o S \o <<RB>>
\* fun g() { int a = 0; int b = 0; int c = 0; fun h() { S } }
\* a, b and c are upvalues of h
InClosure(S) ==
  <<tFun, tId("g"), LP, RP, LB>> \o DeclareABC
    \o <<tFun, tId("h"), LP, RP, LB>> \o S \o <<RB, RB>>

Contexts == {"global", "block", "function", "closure"}
InContext(ctx, S) ==
  CASE ctx = "global" -> AtGlobal(S)
    [] ctx = "block" -> InBlock(S)
    [] ctx = "function" -> InFunction(S)
    [] ctx = "closure" -> InClosure(S)

\* expressions that are not a bare variable
NonVariables ==
  {<<tId("a"), PLUS, tId("b")>>, <<tNum(<<"1">>)>>, <<MINUS, tId("a")>>,
   <<tId("f"), LP, RP>>, <<LP, tId("a"), RP>>, <<tId("a"), ASSIGN, tId("b"), PLUS, tId("c")>>}

\* right-hand sides, with the opcodes of their code when every name is
\* read with get and written with set
RightHandSides(get, set) ==
  {[text |-> <<tNum(<<"1">>)>>, ops |-> <<OpConstant>>],
   [text |-> <<tId("b")>>, ops |-> <<get>>],
   [text |-> <<tId("b"), PLUS, tId("c")>>, ops |-> <<get, get, OpAdd>>],
   [text |-> <<MINUS, tId("b")>>, ops |-> <<get, OpNegate>>],
   [text |-> <<tId("b"), ASSIGN, tId("c")>>, ops |-> <<get, set>>],
   [text |-> <<tId("f"), LP, RP>>, ops |-> <<OpGetGlobal, OpCall>>]}

\* initializers of  int x = ... ;  that name x
SelfInitializers ==
  {<<tId("x")>>, <<tId("x"), PLUS, tNum(<<"1">>)>>, <<MINUS, tId("x")>>,
   <<LP, tId("x"), RP>>, <<tId("a"), PLUS, tId("x")>>, <<tId("x"), ASSIGN, tNum(<<"1">>)>>}

\* E = 3;
InvalidAssignment(E) == E \o <<ASSIGN, tNum(<<"3">>), SEMI>>
\* a = R;
Assignment(R) == <<tId("a"), ASSIGN>> \o R \o <<SEMI>>
\* int x = I;
Initialized(I) == <<tInt, tId("x"), ASSIGN>> \o I \o <<SEMI>>

StatementSources ==
  {InContext(ctx, InvalidAssignment(E)) : ctx \in Contexts, E \in NonVariables}
    \cup {InContext(ctx, Assignment(R.text)) :
            ctx \in Contexts, R \in RightHandSides(OpGetLocal, OpSetLocal)}
    \cup {InContext(ctx, Initialized(I)) : ctx \in Contexts, I \in SelfInitializers}

\* a Compiler constructed and Compile called on one of the sources
InitStatements ==
  /\ phase = "compiling"
  /\ comp \in {NewCompiler(ExtractTokens(text), <<>>) : text \in StatementSources}
  /\ main = NoFunction
  /\ frames = <<>>
  /\ stack = <<>>
  /\ names = <<>>
  /\ globals = NativeGlobals
  /\ output = ""
  /\ result = NoResult
  /\ prog = 0
  /\ runs = 0
  /\ hist = HistInit

SpecStatements == InitStatements /\ [][NextCompile]_vars

(***************************************************************************)
(* Compiler::Compile on declarations of locals in blocks and functions     *)
(***************************************************************************)
MaxPieces == 4

\* int name;
DeclareInt(name) == <<tInt, tId(name), SEMI>>

RECURSIVE DeclareMany(_)
\* int v1; ... int vn;
DeclareMany(n) ==
  IF n = 0 THEN <<>> ELSE DeclareMany(n - 1) \o DeclareInt("v" \o ToString(n))

\* with the reserved slot, one local short of a full locals_
ManyLocals == kMaxLocals - 2

ScopePieces ==
  << <<LB>>,
     <<RB>>,
     DeclareInt("a"),
     DeclareInt("b"),
     <<tFun, tId("f"), LP, tInt, tId("a"), RP, LB>>,
     DeclareMany(ManyLocals) >>

RECURSIVE ScopeSources(_)
\* the token lists made of at most n pieces
ScopeSources(n) ==
  IF n = 0 THEN {<<>>}
  ELSE LET Longer(shorter) ==
             shorter \cup {t \o ScopePieces[i] : t \in shorter, i \in DOMAIN ScopePieces}
       IN Longer(ScopeSources(n - 1))

\* a Compiler constructed and Compile called on one of the sources
InitScopes ==
  /\ phase = "compiling"
  /\ comp \in {NewCompiler(ExtractTokens(text), <<>>) : text \in ScopeSources(MaxPieces)}
  /\ main = NoFunction
  /\ frames = <<>>
  /\ stack = <<>>
  /\ names = <<>>
  /\ globals = NativeGlobals
  /\ output = ""
  /\ result = NoResult
  /\ prog = 0
  /\ runs = 0
  /\ hist = HistInit

SpecScopes == InitScopes /\ [][NextCompile]_vars

(***************************************************************************)
(* Properties                                                              *)
(***************************************************************************)
\* the Interpret call of program src on a fresh virtual machine is over
Finished(src) ==
  /\ runs = 1
  /\ prog = ProgramOf(src)
  /\ phase \in {"idle"} \cup UBOutcomes

\* C1: inside a closure invocation, a GetUpvalue u that follows a SetUpvalue u
\* of the same invocation pushes the value that was stored.
C1_GetUpvalueReadsStoredValue ==
  (hist.upRead.read /\ ~hist.upRead.stored.null)
     => hist.upRead.pushed = hist.upRead.stored.val

\* C1, the example: the makeCounter program prints 1
C1_MakeCounterPrintsOne == Finished(SrcMakeCounter) => output = "1"

\* C2: a GetUpvalue executed after the defining function has returned pushes
\* the value the captured local had when the Closure instruction executed
\* (the capture program prints 1, also when the local is assigned after the
\* capture).
C2_CapturedValueSurvivesReturn ==
  /\ hist.upRead.read =>
       [block |-> hist.last.block, index |-> hist.upRead.index,
        value |-> hist.upRead.pushed] \in hist.captured
  /\ Finished(SrcCapture) => output = "1"
  /\ Finished(SrcCaptureThenAssign) => output = "1"

\* mk has returned (only main and g are on the frame stack, and mk's slots are
\* gone) and g has just read its upvalue
C2_Witness ==
  /\ prog = ProgramOf(SrcCapture)
  /\ hist.upRead.read
  /\ Len(frames) = 2
  /\ Frame.closure.func.name = "g"
  /\ Frame.slots = 1
  /\ hist.upRead.pushed = IntV(1)

\* the step is the dispatch of one instruction with opcode op
Dispatched(op) ==
  /\ hist'.dispatched = hist.dispatched + 1
  /\ hist'.last.op = op

\* C3: a Call of a closure with matching argument count pushes a frame whose
\* slot 0 is the callee and whose slot of the i-th parameter, as the compiler
\* assigned it, holds the i-th argument in source order.
C3_CallStep ==
  (Dispatched(OpCall) /\ Len(frames') = Len(frames) + 1) =>
     LET frame == frames'[Len(frames')]
         n == GetByte(1)
     IN /\ frame.closure.func.paramCount = n
        /\ frame.slots + n + 1 = Len(stack')
        /\ stack'[frame.slots + 1] = ClosureV(frame.closure)
        /\ \A i \in 1..n :
             /\ \E r \in comp.paramLog :
                  r.block = frame.closure.func.block /\ r.param = i
             /\ \A r \in comp.paramLog :
                  (r.block = frame.closure.func.block /\ r.param = i) =>
                     /\ r.slot \in 1..n
                     /\ stack'[frame.slots + r.slot + 1] = stack[Len(stack) - n + i]

\* C3: every Call step places the arguments in the slots of the parameters,
\* and the add and sub programs print 42.
C3_ArgumentsInParameterSlots ==
  /\ [][C3_CallStep]_vars
  /\ [](Finished(SrcAdd) => output = "42")
  /\ [](Finished(SrcSub) => output = "42")

\* sub(50, 9) has just been called: slot 1 holds 50 and slot 2 holds 9
C3_Witness ==
  /\ prog = ProgramOf(SrcSub)
  /\ phase = "running"
  /\ hist.last.op = OpCall
  /\ Len(frames) = 2
  /\ Frame.ip = 0
  /\ GetSlot(1) = IntV(50)
  /\ GetSlot(2) = IntV(9)

\* C4: a Return in a frame other than the root (the frame Interpret pushed
\* for the script) leaves the frame stack one
\* shorter and the value stack equal to the values below the frame's slot zero
\* followed by the return value, and the caller goes on after its Call.
C4_ReturnStep ==
  (Dispatched(OpReturn) /\ Len(frames) > hist.frames0 + 1) =>
     /\ frames' = Front(frames)
     /\ stack' = Append(SubSeq(stack, 1, Frame.slots), Peek(0))
     /\ LET caller == frames'[Len(frames')]
        IN /\ caller.ip >= 2
           /\ ByteCodeBlockOf(caller.closure).code[caller.ip - 1] = OpCall

\* C4: every Return step of a frame other than the root returns to the caller
\* as stated for C4_ReturnStep.
C4_ReturnToCaller == [][C4_ReturnStep]_vars

\* sub has returned 41 into main, above the constant 1 that was below its frame
C4_Witness ==
  /\ prog = ProgramOf(SrcSub)
  /\ phase = "running"
  /\ hist.last.op = OpReturn
  /\ hist.last.depth = 2
  /\ Len(frames) = 1
  /\ stack = <<ClosureV(NewClosure(main)), IntV(1), IntV(41)>>

\* C5: when compilation fails, Interpret surfaces the error and dispatches no
\* instruction: the output and the globals are as they were before the call.
C5_CompileErrorRunsNothing ==
  hist.compileFailed =>
     /\ hist.dispatched = 0
     /\ output = hist.out0
     /\ globals = hist.globals0
     /\ phase = "idle" => result.kind = "error"

\* C6: when the root frame executes Return, Interpret returns the value that
\* Return popped, and the value stack and the frame stack are empty.
C6_RootReturnValue ==
  (phase = "idle" /\ hist.rootPopped.read) =>
     /\ result.kind = "value"
     /\ result.v = hist.rootPopped.v
     /\ stack = <<>>
     /\ frames = <<>>

\* C7: compilation of a token list terminates with a function or with one
\* compile error: every iteration of the declaration loops of Compile and
\* Block moves currToken_ forward or throws, currToken_ never passes the end
\* of the list, a compilation without error has consumed the whole list, and
\* nothing is compiled after the error.
C7_CompileStep ==
  (phase = "compiling" /\ Ok(comp)) => (comp'.curr > comp.curr \/ ~Ok(comp'))

\* C7, the states: no loop iteration without progress has happened and
\* currToken_ is inside the token list or one past its end
C7_Progress ==
  /\ ~comp.stalled
  /\ comp.curr <= Len(comp.tokens) + 1
  /\ (phase = "compiling" /\ Ok(comp)) => comp.curr <= Len(comp.tokens)
  /\ (phase = "compiled" /\ Ok(comp)) => comp.curr = Len(comp.tokens) + 1
  /\ hist.compileFailed => ~Ok(comp)

\* C7: every compile step makes progress or throws, every state satisfies
\* C7_Progress, and nothing is compiled after the error.
C7_CompilationTerminates ==
  /\ [][C7_CompileStep]_vars
  /\ []C7_Progress
  /\ [][~Ok(comp) => comp' = comp]_vars

\* { int x = 1; print x; }  has been compiled: the loop of Block ran twice,
\* the loop of Compile once
C7_Witness ==
  /\ phase = "compiled"
  /\ Ok(comp)
  /\ comp.tokens = ExtractTokens(<<LB, tInt, tId("x"), ASSIGN, tNum(<<"1">>), SEMI,
                                tPrint, tId("x"), SEMI, RB>>)
  /\ comp.curr = Len(comp.tokens) + 1
  /\ Len(comp.scopeLog) = 1

\* the ip of the running frame after the step
NextIP == frames'[Len(frames')].ip

\* the instruction just dispatched is at offset ip of the block a record of
\* the compiler names
At(r, ip) == hist'.last.block = r.block /\ hist'.last.ip = ip

\* C8: in  a and b  with a falsy the jump at the test goes to the end of the
\* code of b, and in  a or b  with a truthy the test falls through to a jump
\* that goes to the end of the code of b: no instruction of b is executed
\* (a call inside b is never invoked).
C8_CircuitStep ==
  \A r \in comp.circuitLog :
     /\ (Dispatched(OpJumpIfFalse) /\ At(r, r.test) /\ r.kind = "and"
           /\ ~IsTrue(Peek(0)))
          => NextIP = r.to /\ r.from <= r.to
     /\ (Dispatched(OpJumpIfFalse) /\ At(r, r.test) /\ r.kind = "or"
           /\ IsTrue(Peek(0)))
          => NextIP = r.skip /\ r.skip < r.from
     /\ (Dispatched(OpJump) /\ At(r, r.skip) /\ r.kind = "or")
          => NextIP = r.to /\ r.from <= r.to

C9_JumpStep ==
  LET taken == \/ Dispatched(OpJump)
               \/ Dispatched(OpLoop)
               \/ Dispatched(OpJumpIfFalse) /\ ~IsTrue(Peek(0))
      kind == IF Dispatched(OpLoop) THEN "Loop" ELSE "Jump"
      records == {r \in comp.jumpLog : At(r, r.operand - 1) /\ r.kind = kind}
  IN /\ taken => records # {} /\ \A r \in records : NextIP = r.target
     /\ (Dispatched(OpJumpIfFalse) /\ IsTrue(Peek(0))) => NextIP = Frame.ip + 3

\* C9: every jump step lands on the recorded target, and the if, for and
\* while programs print what the taken branches print.
C9_JumpTargets ==
  /\ [][C9_JumpStep]_vars
  /\ [](Finished(SrcIf) => output = "yes\nb")
  /\ [](Finished(SrcFor) => output = "3")
  /\ [](Finished(SrcWhile) => output = "2")

\* a forward jump over more than 255 bytes and a loop back over more than 255
\* bytes have been taken
C9_Witness ==
  /\ Finished(SrcBigJump)
  /\ result.kind = "value"
  /\ \E r \in comp.jumpLog : r.kind = "Jump" /\ r.target - r.operand > 255
  /\ \E r \in comp.jumpLog : r.kind = "Loop" /\ r.operand - r.target > 255
  /\ output = "2\n8\n8\n8\n8\n8\n8\n8\n8\n8\n8\n8"

\* C10: EndScope emits one Pop for each local declared since the matching
\* BeginScope and removes those locals: the locals after EndScope are the
\* locals at BeginScope.
C10_ScopeBalance ==
  \A k \in DOMAIN comp.scopeLog :
     LET r == comp.scopeLog[k]
     IN /\ r.after = r.atBegin
        /\ Len(r.atEnd) >= Len(r.atBegin)
        /\ SubSeq(r.atEnd, 1, Len(r.atBegin)) = r.atBegin
        /\ r.emitted = [i \in 1..(Len(r.atEnd) - Len(r.atBegin)) |-> OpPop]

\* a scope that declared two locals inside a scope with one local was closed
C10_Witness ==
  \E k \in DOMAIN comp.scopeLog :
     /\ Len(comp.scopeLog[k].atBegin) = 2
     /\ Len(comp.scopeLog[k].atEnd) = 4
     /\ comp.scopeLog[k].emitted = <<OpPop, OpPop>>

\* the constant pool of the current block
Pool(c) == GetCurrentByteCodeBlock(c).constants

\* the call of AddConstant made by this step
Added == hist'.adds = hist.adds + 1

\* C11: adding a constant equal to one in the pool returns the index of that
\* one and leaves the pool unchanged, so a pool never holds a value twice and
\* k additions of one value add at most one entry.
C11_AddStep ==
  Added =>
     LET value == hist'.value
     IN /\ (\E i \in DOMAIN Pool(comp) : Pool(comp)[i] = value) =>
             /\ Pool(comp') = Pool(comp)
             /\ Ok(comp')
             /\ Pool(comp)[comp'.ret + 1] = value
        /\ Len(Pool(comp')) <= Len(Pool(comp)) + 1
        /\ Ok(comp') => Pool(comp')[comp'.ret + 1] = value

C11_NoDuplicates ==
  Cardinality({Pool(comp)[i] : i \in DOMAIN Pool(comp)}) = Len(Pool(comp))

C12_AddStep ==
  (Added /\ ~\E i \in DOMAIN Pool(comp) : Pool(comp)[i] = hist'.value) =>
     IF Len(Pool(comp)) < kMaxConstants
       THEN /\ Ok(comp')
            /\ Pool(comp') = Append(Pool(comp), hist'.value)
            /\ comp'.ret = Len(Pool(comp))
       ELSE /\ ~Ok(comp')
            /\ Pool(comp') = Pool(comp)

\* C12: every AddConstant step of a new value is as C12_AddStep says.
C12_Accepts255Constants == [][C12_AddStep]_vars

\* an instruction Call n whose callee is of type t is about to be executed
Calling(t) == Executes(OpCall) /\ Peek(GetByte(1)).t = t

\* C13: the frame stack never holds more than 64 frames; a Call of a closure
\* while 64 frames are active fails with the stack-overflow runtime error and
\* pushes no frame; a Call of a closure with fewer than 64 frames active and a
\* matching argument count pushes exactly one frame.
C13_CallStep ==
  (Calling("Closure") /\ Dispatched(OpCall)) =>
     IF ~ArgCountMatches(GetByte(1), Peek(GetByte(1)).c.func.paramCount) THEN TRUE
     ELSE IF Len(frames) = kMaxCallFrames
       THEN /\ phase' = "idle"
            /\ result' = [kind |-> "error", msg |-> "Stack overflow"]
            /\ Len(frames') = Len(frames)
     ELSE /\ Len(frames') = Len(frames) + 1
          /\ Front(frames') = AdvanceIP(frames, 2)
          /\ phase' = "running"

Pushing ==
  /\ Fetchable
  /\ Defined(GetByte(0))
  /\ \/ GetByte(0) \in {OpConstant, OpTrue, OpFalse, OpEmpty, OpGetLocal,
                         OpGetUpvalue, OpClosure}
     \/ GetByte(0) = OpGetGlobal /\ ReadString \in DOMAIN globals

\* C14: the value stack can grow to 4096 values: a push succeeds whenever
\* fewer than 4096 values are on the stack, and no smaller internal bound is
\* reached first.
C14_PushStep ==
  (Pushing /\ Len(stack) < kMaxStackValues) =>
     /\ Len(stack') = Len(stack) + 1
     /\ phase' = "running"
     /\ result'.kind # "error"

C14_StackHolds4096Values == [][C14_PushStep]_vars

\* VirtualMachine::CallValue : the declared parameter count of a callee
ParamCountOf(callee) ==
  IF callee.t = "Closure" THEN callee.c.func.paramCount ELSE callee.argCount

\* C15: a Call n whose callee is a closure or a native with a declared
\* parameter count other than n fails with the arity error: no frame is pushed,
\* the native is not invoked (no result appears) and the value stack is as it
\* was.
C15_CallStep ==
  ((Calling("Closure") \/ Calling("NativeFunc"))
      /\ GetByte(1) # ParamCountOf(Peek(GetByte(1)))) =>
     /\ phase' = "idle"
     /\ result' = [kind |-> "error", msg |-> "Expected arguments"]
     /\ Len(frames') = Len(frames)
     /\ stack' = stack
     /\ names' = names
     /\ output' = output
     /\ globals' = globals

C15_ArityError ==
  /\ [][C15_CallStep]_vars
  /\ [](Finished(SrcClosureArity) =>
          /\ result = [kind |-> "error", msg |-> "Expected arguments"]
          /\ output = "5"
          /\ Len(frames) = 1)
  /\ [](Finished(SrcNativeArity) =>
          /\ result = [kind |-> "error", msg |-> "Expected arguments"]
          /\ output = "7"
          /\ stack = <<ClosureV(NewClosure(main)), NativeV("square", 1)>>)
  /\ [](Finished(SrcNativeExtraArgument) =>
          /\ result = [kind |-> "error", msg |-> "Expected arguments"]
          /\ output = "8"
          /\ stack = <<ClosureV(NewClosure(main)), NativeV("clock", 0), IntV(3)>>)

\* f(1, 2) has failed: f and its two arguments are still on the stack of main
C15_Witness ==
  /\ Finished(SrcClosureArity)
  /\ hist.last.op = OpCall
  /\ result = [kind |-> "error", msg |-> "Expected arguments"]
  /\ Len(frames) = 1
  /\ Len(stack) = 4
  /\ Peek(2).t = "Closure"
  /\ Peek(2).c.func.name = "f"
  /\ Peek(2).c.func.paramCount = 1
  /\ Peek(1) = IntV(1)
  /\ Peek(0) = IntV(2)

\* C16: DefineGlobal N pops the top value v and binds N to v for every N,
\* whether or not N is already present (a second declaration of a global, or
\* the declaration of a global with the name of a native, rebinds it): a later
\* GetGlobal N pushes v.
C16_DefineStep ==
  Dispatched(OpDefineGlobal) =>
     /\ stack' = Pop(stack)
     /\ ReadString \in DOMAIN globals'
     /\ globals'[ReadString] = Peek(0)

C16_DefineGlobalRebinds ==
  /\ [][C16_DefineStep]_vars
  /\ [](Finished(SrcRedefine) => output = "2\n3")

UndefinedVariable == [kind |-> "error", msg |-> "Undefined variable"]

\* C17: GetGlobal and SetGlobal of a name that is not in the globals table fail
\* with the undefined-variable runtime error; SetGlobal never creates an entry;
\* the table is unchanged by the failing instruction.
C17_UndefinedStep ==
  ((Executes(OpGetGlobal) \/ Executes(OpSetGlobal))
      /\ ReadString \notin DOMAIN globals) =>
     /\ phase' = "idle"
     /\ result' = UndefinedVariable
     /\ globals' = globals
     /\ stack' = stack

C17_SetStep == Dispatched(OpSetGlobal) => DOMAIN globals' = DOMAIN globals

C17_UndefinedGlobal ==
  /\ [][C17_UndefinedStep]_vars
  /\ [][C17_SetStep]_vars
  /\ [](Finished(SrcRuntimeError) =>
          result = UndefinedVariable /\ globals = hist.globals0)
  /\ [](Finished(SrcUndefinedSet) =>
          result = UndefinedVariable /\ globals = hist.globals0 /\ output = "6")

\* u = 1; has failed at its SetGlobal, and there is no global u
C17_Witness ==
  /\ Finished(SrcUndefinedSet)
  /\ hist.last.op = OpSetGlobal
  /\ result = UndefinedVariable
  /\ Peek(0) = IntV(1)
  /\ "u" \notin DOMAIN globals
  /\ output = "6"

\* C18: a Call n of a native with arity n invokes the native once on the n
\* arguments in push order and pushes no frame; afterwards the stack is the
\* values below the callee followed by the result, so its height has decreased
\* by n.  print square(9); prints 81.  (Stated for a Call that finds room in
\* names_ for the name of the result.)
C18_NativeStep ==
  (Calling("NativeFunc") /\ GetByte(1) = ParamCountOf(Peek(GetByte(1)))
      /\ Len(names) < kMaxCallFrames) =>
     LET n == GetByte(1)
         callee == Peek(n)
         below == Take(stack, Len(stack) - n - 1)
     IN /\ Len(frames') = Len(frames)
        /\ phase' = "running"
        /\ Len(stack') = Len(stack) - n
        /\ Take(stack', Len(stack') - 1) = below
        /\ CASE callee.name = "square" ->
                    stack'[Len(stack')] = IntV(Peek(0).i * Peek(0).i)
             [] callee.name = "genre" -> stack'[Len(stack')] = StrV("Rock")
             [] OTHER -> stack'[Len(stack')].t = "Int"

RECURSIVE OpsFrom(_, _)
\* the opcodes of the instructions of a block from offset i on, operands left
\* out
OpsFrom(block, i) ==
  IF i >= Len(block.code) THEN <<>>
  ELSE LET op == block.code[i + 1]
           n == IF op = OpClosure
                  THEN 1 + 2 * block.constants[block.code[i + 2] + 1].c.func.upvalueCount
                  ELSE OperandBytes(op)
       IN <<op>> \o OpsFrom(block, i + 1 + n)

\* the block that receives the code of the statement S of InContext(ctx, S)
StatementBlock(ctx) ==
  CASE ctx \in {"global", "block"} -> comp.blocks[1]
    [] ctx = "function" -> comp.blocks[2]
    [] ctx = "closure" -> comp.blocks[3]

\* the opcodes in front of the code of S
PrefixOps(ctx) ==
  CASE ctx = "global" -> <<OpConstant, OpDefineGlobal, OpConstant, OpDefineGlobal,
                           OpConstant, OpDefineGlobal>>
    [] ctx = "block" -> <<OpConstant, OpConstant, OpConstant>>
    [] ctx = "function" -> <<OpConstant, OpConstant>>
    [] ctx = "closure" -> <<>>

\* how a, b and c are read and written in a context
GetOp(ctx) ==
  CASE ctx = "global" -> OpGetGlobal
    [] ctx = "closure" -> OpGetUpvalue
    [] OTHER -> OpGetLocal
SetOp(ctx) ==
  CASE ctx = "global" -> OpSetGlobal
    [] ctx = "closure" -> OpSetUpvalue
    [] OTHER -> OpSetLocal

VariableOps ==
  {OpGetLocal, OpSetLocal, OpGetGlobal, OpSetGlobal, OpGetUpvalue, OpSetUpvalue}

\* Compile has returned, with a function or after catching the error
Compiled(text) == phase # "compiling" /\ comp.tokens = ExtractTokens(text)

\* C19, the error: E = 3; fails with "Invalid assignment target" for every
\* expression E that is not a bare variable
C19_InvalidTargets ==
  \A ctx \in Contexts, E \in NonVariables :
     Compiled(InContext(ctx, InvalidAssignment(E))) =>
        comp.err = "Invalid assignment target"

\* C19, the code: a = R; is the code of R, one SetLocal, SetUpvalue or
\* SetGlobal, and the Pop of the statement; no instruction reads a
C19_AssignmentCode ==
  \A ctx \in Contexts : \A R \in RightHandSides(GetOp(ctx), SetOp(ctx)) :
     Compiled(InContext(ctx, Assignment(R.text))) =>
        /\ Ok(comp)
        /\ LET ops == OpsFrom(StatementBlock(ctx), 0)
               k == Len(PrefixOps(ctx)) + Len(R.ops) + 2
           IN /\ Len(ops) >= k
              /\ Take(ops, k) = PrefixOps(ctx) \o R.ops \o <<SetOp(ctx), OpPop>>
              /\ \A i \in (k + 1)..Len(ops) : ops[i] \notin VariableOps

\* C19: an = that follows an expression other than a bare variable, at
\* assignment precedence, is the compile error "Invalid assignment target"; an
\* = that follows a bare variable emits the code of the right-hand side, then
\* exactly one SetLocal, SetUpvalue or SetGlobal, and no Get for the variable.
C19_AssignmentTargets == C19_InvalidTargets /\ C19_AssignmentCode

\* { int a = 0; int b = 0; int c = 0; a + b = 3; } has failed at the = : the
\* code of a + b is there, = is consumed, and nothing follows
C19_Witness ==
  /\ phase = "compiled"
  /\ comp.tokens = ExtractTokens(InBlock(InvalidAssignment(<<tId("a"), PLUS, tId("b")>>)))
  /\ comp.err = "Invalid assignment target"
  /\ comp.tokens[comp.prev] = ASSIGN
  /\ OpsFrom(comp.blocks[1], 0) =
        <<OpConstant, OpConstant, OpConstant, OpGetLocal, OpGetLocal, OpAdd>>

\* C20: the initializer of a local that names the local being declared is the
\* compile error "Can't read local variable in its own initializer".
C20_OwnInitializer ==
  \A ctx \in Contexts \ {"global"}, I \in SelfInitializers :
     Compiled(InContext(ctx, Initialized(I))) =>
        comp.err = "Can't read local variable in its own initializer"

\* { int a = 0; int b = 0; int c = 0; int x = a + x; } has failed at the second
\* x : x is the last local, declared and not initialized, and a has been read
C20_Witness ==
  /\ phase = "compiled"
  /\ comp.tokens = ExtractTokens(InBlock(Initialized(<<tId("a"), PLUS, tId("x")>>)))
  /\ comp.err = "Can't read local variable in its own initializer"
  /\ comp.tokens[comp.prev] = tId("x")
  /\ LET fi == GetC(comp)
     IN /\ fi.locals[Len(fi.locals)].token = tId("x")
        /\ ~fi.locals[Len(fi.locals)].isInitialized
  /\ OpsFrom(comp.blocks[1], 0) = <<OpConstant, OpConstant, OpConstant, OpGetLocal>>

(***************************************************************************)
(* What the scoping rules say about a source made of ScopePieces: the      *)
(* functions being compiled, innermost last, each with its open scopes     *)
(* (the names declared in each, in order) and its number of locals_        *)
(* entries                                                                 *)
(***************************************************************************)
ScriptScopes == <<[scopes |-> <<>>, count |-> 1]>>

RECURSIVE Flatten(_)
Flatten(scopes) ==
  IF scopes = <<>> THEN <<>> ELSE Flatten(Front(scopes)) \o Last(scopes)

InSeq(x, seq) == \E i \in DOMAIN seq : seq[i] = x

Verdict(kind, fs) == [kind |-> kind, locals |-> Flatten(Last(fs).scopes)]

\* the declaration of a local in the innermost scope of the innermost function
DeclareIn(fs, name) ==
  LET f == Last(fs)
  IN IF f.scopes = <<>> THEN [kind |-> "ok", fs |-> fs]
     ELSE IF f.count >= kMaxLocals THEN [kind |-> "full", fs |-> fs]
     ELSE IF InSeq(name, Last(f.scopes)) THEN [kind |-> "duplicate", fs |-> fs]
     ELSE [kind |-> "ok",
           fs |-> [fs EXCEPT ![Len(fs)] =
                     [scopes |-> [f.scopes EXCEPT ![Len(f.scopes)] = Append(@, name)],
                      count |-> f.count + 1]]]

RECURSIVE Scoping(_, _, _)
Scoping(tokens, i, fs) ==
  LET f == Last(fs)
      tok == tokens[i]
      Declared(d, next) ==
        IF d.kind # "ok" THEN Verdict(d.kind, d.fs) ELSE Scoping(tokens, next, d.fs)
      \* fun name ( int param ) {  : the name in the enclosing scope, the
      \* parameter in the scope of the body
      Function(d) ==
        IF d.kind # "ok" THEN Verdict(d.kind, d.fs)
        ELSE Declared(DeclareIn(Append(d.fs, [scopes |-> << <<>> >>, count |-> 1]),
                                tokens[i + 4].lexeme),
                      i + 7)
  IN CASE tok = EOF ->
            Verdict(IF fs = ScriptScopes THEN "ok" ELSE "other", fs)
       [] tok = LB ->
            Scoping(tokens, i + 1, [fs EXCEPT ![Len(fs)].scopes = Append(@, <<>>)])
       [] tok = RB ->
            IF f.scopes = <<>> THEN Verdict("other", fs)
            ELSE IF Len(fs) > 1 /\ Len(f.scopes) = 1 THEN Scoping(tokens, i + 1, Front(fs))
            ELSE Scoping(tokens, i + 1,
                         [fs EXCEPT ![Len(fs)] =
                            [scopes |-> Front(f.scopes),
                             count |-> f.count - Len(Last(f.scopes))]])
       [] tok = tInt -> Declared(DeclareIn(fs, tokens[i + 1].lexeme), i + 3)
       [] tok = tFun -> Function(DeclareIn(fs, tokens[i + 1].lexeme))

Expected == Scoping(comp.tokens, 1, ScriptScopes)

LocalNames(locals) == [i \in 1..(Len(locals) - 1) |-> locals[i + 1].token.lexeme]

\* every locals_ the compilation has had at the end of a scope, at the end of
\* a function, or has now
ObservedLocals ==
  {comp.compStack[i].locals : i \in DOMAIN comp.compStack}
    \cup comp.functionLog
    \cup {comp.scopeLog[i].atEnd : i \in DOMAIN comp.scopeLog}

\* no two locals of one scope share a name
DistinctPerScope(locals) ==
  \A i, j \in 2..Len(locals) :
     (i < j /\ locals[i].token.lexeme = locals[j].token.lexeme) =>
        locals[i].depth # locals[j].depth

\* C21: the declaration of a local with the name of a local of the same scope
\* of the same function is the compile error "Already a variable with this
\* name in scope", the declaration of that name in an inner scope is accepted,
\* and at no time do two locals of one scope share a name.
C21_NoDuplicateInScope ==
  /\ phase # "compiling" =>
        (comp.err = "Already a variable with this name in scope"
           <=> Expected.kind = "duplicate")
  /\ \A locals \in ObservedLocals : DistinctPerScope(locals)

\* { int a; { int a;  has been compiled up to the end of the source:
\* the second a was accepted, and locals_ holds a at depth 1 and a at depth 2
C21_Witness ==
  /\ phase = "compiled"
  /\ comp.tokens = ExtractTokens(<<LB>> \o DeclareInt("a") \o <<LB>> \o DeclareInt("a"))
  /\ comp.err = "Expected '}' after block"
  /\ LocalNames(GetC(comp).locals) = <<"a", "a">>
  /\ GetC(comp).locals[2].depth = 1
  /\ GetC(comp).locals[3].depth = 2

\* C22: every locals_ holds between 1 and 16 entries, the first of them the
\* reserved entry without a name; the declaration of a local when locals_
\* holds 16 entries is the compile error "Too many local variables in
\* function" and leaves locals_ as it was.
C22_LocalsBounded ==
  /\ \A locals \in ObservedLocals :
        /\ Len(locals) >= 1
        /\ Len(locals) <= kMaxLocals
        /\ locals[1].token = DefaultToken
  /\ \A i \in DOMAIN comp.compStack :
        comp.compStack[i].localCount = Len(comp.compStack[i].locals)
  /\ phase # "compiling" =>
        (comp.err = "Too many local variables in function" <=> Expected.kind = "full")
  /\ comp.err = "Too many local variables in function" =>
        /\ Len(GetC(comp).locals) = kMaxLocals
        /\ LocalNames(GetC(comp).locals) = Expected.locals

\* { int v1; ... int v14; int a; int b;  has failed at b: the
\* sixteen entries are the reserved one, v1 .. v14 and a
C22_Witness ==
  /\ phase = "compiled"
  /\ comp.tokens = ExtractTokens(<<LB>> \o DeclareMany(ManyLocals) \o DeclareInt("a")
                                  \o DeclareInt("b"))
  /\ comp.err = "Too many local variables in function"
  /\ comp.tokens[comp.prev] = tId("b")
  /\ Len(GetC(comp).locals) = kMaxLocals
  /\ GetC(comp).locals[kMaxLocals].token = tId("a")

(***************************************************************************)
(* Integers of 64 bits as <<q, r>> for q * 10^9 + r with 0 <= r < 10^9     *)
(***************************************************************************)
RECURSIVE Plain(_)
Plain(ds) == IF ds = <<>> THEN 0 ELSE 10 * Plain(Front(ds)) + DigitVal(Last(ds))
Magnitude(ds) ==
  IF Len(ds) <= 9 THEN <<0, Plain(ds)>>
  ELSE <<Plain(SubSeq(ds, 1, Len(ds) - 9)), Plain(SubSeq(ds, Len(ds) - 8, Len(ds)))>>
WideNegate(x) == IF x[2] = 0 THEN <<-x[1], 0>> ELSE <<-x[1] - 1, 1000000000 - x[2]>>
Wide(lit) == IF lit.negative THEN WideNegate(Magnitude(lit.digits)) ELSE Magnitude(lit.digits)
WideAdd(x, y) ==
  LET r == x[2] + y[2]
  IN <<x[1] + y[1] + (r \div 1000000000), r % 1000000000>>
Zeros(r) ==
  CASE r < 10 -> "00000000" [] r < 100 -> "0000000" [] r < 1000 -> "000000"
    [] r < 10000 -> "00000" [] r < 100000 -> "0000" [] r < 1000000 -> "000"
    [] r < 10000000 -> "00" [] r < 100000000 -> "0" [] OTHER -> ""
NonNegativeText(x) ==
  IF x[1] = 0 THEN ToString(x[2]) ELSE ToString(x[1]) \o Zeros(x[2]) \o ToString(x[2])
WideText(x) ==
  IF x[1] < 0 THEN "-" \o NonNegativeText(WideNegate(x)) ELSE NonNegativeText(x)

\* C23: for the integer literals a and b, the program  print (a) + (b);  prints
\* the integer a + b of 64-bit arithmetic (the sums of the literals checked
\* stay far inside 64 bits, where wrapping changes nothing).
C23_SumPrinted ==
  \A ab \in SumPairs :
    Finished(SrcSum(SumLiterals[ab[1]], SumLiterals[ab[2]])) =>
      /\ phase = "idle"
      /\ result = [kind |-> "value", v |-> BoolV(TRUE)]
      /\ output = WideText(WideAdd(Wide(SumLiterals[ab[1]]), Wide(SumLiterals[ab[2]])))

\* the sums of the literals that an int holds are printed as the claim says
C23_IntSumPrinted ==
  \A ab \in SumPairs :
    (/\ Finished(SrcSum(SumLiterals[ab[1]], SumLiterals[ab[2]]))
     /\ Len(SumLiterals[ab[1]].digits) < 10 \/ ab[1] = 4
     /\ Len(SumLiterals[ab[2]].digits) < 10 \/ ab[2] = 4) =>
      /\ phase = "idle"
      /\ result = [kind |-> "value", v |-> BoolV(TRUE)]
      /\ output = WideText(WideAdd(Wide(SumLiterals[ab[1]]), Wide(SumLiterals[ab[2]])))

\* C24: Divide and Modulus fail with a runtime error, pushing nothing, when
\* the right operand is zero, whatever the Int, Char or Bool on the left; when
\* the right operand is not zero they push their result and do not fail.
C24_DivideStep ==
  (/\ Executes(OpDivide) \/ Executes(OpModulus)
   /\ Peek(1).t \in {"Int", "Char", "Bool"}
   /\ Peek(0).t \in {"Int", "Char"}) =>
     IF ValueToInt(Peek(0)) = 0
       THEN /\ phase' = "idle"
            /\ result'.kind = "error"
            /\ stack' = Pop(Pop(stack))
       ELSE /\ phase' = "running"
            /\ result' = result
            /\ Len(stack') = Len(stack) - 1

C24_ZeroDivisor == [][C24_DivideStep]_vars

\* the same with a left operand of type Int or Bool only
C24_IntDivideStep ==
  ((Executes(OpDivide) \/ Executes(OpModulus)) /\ Peek(1).t # "Char") => C24_DivideStep
C24_IntZeroDivisor == [][C24_IntDivideStep]_vars

\* C25: an upvalue captured with is_local = 0 is the cell of the enclosing
\* closure: what inner stores in x is what mid reads afterwards, and what mid
\* stores in x is what inner reads afterwards.
C25_SharedCell ==
  /\ Finished(SrcSharedUpwards) => phase = "idle" /\ output = "5"
  /\ Finished(SrcSharedDownwards) => phase = "idle" /\ output = "5"

\* both programs run to their end without an error, inner holding a copy of
\* upvalue 1 of mid as its upvalue 0
C25_ProgramsRun ==
  (Finished(SrcSharedUpwards) \/ Finished(SrcSharedDownwards)) =>
     /\ phase = "idle"
     /\ result = [kind |-> "value", v |-> BoolV(TRUE)]
     /\ output = "1"

(***************************************************************************)
(* Lexer (Lexer.h, Lexer.cpp) over sources of characters.  Under           *)
(* SpecLexer the variable comp holds the Lexer object: source_, start_ and *)
(* curr_ as positions from 1 in source_ (curr_ = Len(source_) + 1 is       *)
(* source_.end()), line_, tokens_, and the message of the CompilerError    *)
(* that left ExtractTokens.  A lexeme is the sequence of its characters.   *)
(***************************************************************************)
MaxSource == 4

Quote == "'"
DoubleQuote == "\""
NewLine == "\n"
NUL == "NUL"                      \* '\0', which Peek returns at the end
Alphabet == {Quote, DoubleQuote, "o", "r", "1", ".", "/", NewLine, "=", "#"}

Digits == {"0", "1", "2", "3", "4", "5", "6", "7", "8", "9"}
Letters ==
  {"a", "b", "c", "d", "e", "f", "g", "h", "i", "j", "k", "l", "m", "n", "o", "p",
   "q", "r", "s", "t", "u", "v", "w", "x", "y", "z",
   "A", "B", "C", "D", "E", "F", "G", "H", "I", "J", "K", "L", "M", "N", "O", "P",
   "Q", "R", "S", "T", "U", "V", "W", "X", "Y", "Z"}
\* CharUtil::IsDigit, CharUtil::IsAlpha, CharUtil::IsAlphaNum
IsDigit(ch) == ch \in Digits
IsAlpha(ch) == ch \in Letters
IsAlphaNum(ch) == IsAlpha(ch) \/ IsDigit(ch)

\* kKeywordTokens
kKeywordTokens ==
  <<Tok("And", <<"a", "n", "d">>), Tok("Or", <<"o", "r">>), Tok("Not", <<"n", "o", "t">>),
    Tok("If", <<"i", "f">>), Tok("Else", <<"e", "l", "s", "e">>),
    Tok("For", <<"f", "o", "r">>), Tok("While", <<"w", "h", "i", "l", "e">>),
    Tok("Return", <<"r", "e", "t", "u", "r", "n">>), Tok("True", <<"t", "r", "u", "e">>),
    Tok("False", <<"f", "a", "l", "s", "e">>), Tok("Print", <<"p", "r", "i", "n", "t">>),
    Tok("Str", <<"s", "t", "r">>), Tok("Int", <<"i", "n", "t">>),
    Tok("Char", <<"c", "h", "a", "r">>), Tok("Bool", <<"b", "o", "o", "l">>),
    Tok("Function", <<"f", "u", "n">>)>>

\* Lexer::Lexer
NewLexer(source) ==
  [source |-> source, start |-> 1, curr |-> 1, line |-> 1, tokens |-> <<>>, err |-> ""]

\* Lexer::IsAtEnd, Lexer::Peek, Lexer::PeekNext
IsAtEnd(lx) == lx.curr >= Len(lx.source) + 1
LexPeek(lx) == IF IsAtEnd(lx) THEN NUL ELSE lx.source[lx.curr]
PeekNext(lx) == IF lx.curr + 1 >= Len(lx.source) + 1 THEN NUL ELSE lx.source[lx.curr + 1]

\* Lexer::Advance : ++curr_ (the character returned is the one at the old curr_)
LexAdvance(lx) == [lx EXCEPT !.curr = @ + 1]

\* Lexer::AddToken : the lexeme is [start_, curr_)
AddToken(lx, tokenType) ==
  [lx EXCEPT !.tokens = Append(@, Tok(tokenType, SubSeq(lx.source, lx.start, lx.curr - 1)))]

\* AddToken( IsMatchAdvance( expected ) ? matched : single )
AddEither(lx, expected, matched, single) ==
  IF ~IsAtEnd(lx) /\ lx.source[lx.curr] = expected
    THEN AddToken(LexAdvance(lx), matched)
    ELSE AddToken(lx, single)

RECURSIVE SkipComment(_)
\* Lexer::SkipComment
SkipComment(lx) ==
  IF LexPeek(lx) # NewLine /\ ~IsAtEnd(lx) THEN SkipComment(LexAdvance(lx)) ELSE lx

RECURSIVE ScanString(_, _)
\* the loop of Lexer::AddStringToken
ScanString(lx, quote) ==
  IF LexPeek(lx) # quote /\ ~IsAtEnd(lx)
    THEN ScanString(LexAdvance(IF LexPeek(lx) = NewLine
                              THEN [lx EXCEPT !.line = @ + 1] ELSE lx), quote)
    ELSE lx

\* a string token that keeps its opening quote
AddStringTokenWithQuote(lx, quote) ==
  LET lx1 == ScanString(lx, quote)
  IN IF IsAtEnd(lx1) THEN [lx1 EXCEPT !.err = "Unterminated string"]
     ELSE LexAdvance(AddToken(lx1, "String"))

\* Lexer::AddStringToken
AddStringToken(lx, quote) ==
  LET lx1 == ScanString(lx, quote)
  IN IF IsAtEnd(lx1) THEN [lx1 EXCEPT !.err = "Unterminated string"]
     ELSE LexAdvance(AddToken([lx1 EXCEPT !.start = @ + 1], "String"))

RECURSIVE SkipDigits(_)
SkipDigits(lx) == IF IsDigit(LexPeek(lx)) THEN SkipDigits(LexAdvance(lx)) ELSE lx

\* Lexer::AddNumberToken
AddNumberToken(lx) ==
  LET lx1 == SkipDigits(lx)
  IN IF LexPeek(lx1) = "." /\ IsDigit(PeekNext(lx1))
       THEN AddToken(SkipDigits(LexAdvance(lx1)), "Number")
       ELSE AddToken(lx1, "Number")

RECURSIVE SkipIdentifier(_)
SkipIdentifier(lx) ==
  IF IsAlphaNum(LexPeek(lx)) \/ LexPeek(lx) = "_" THEN SkipIdentifier(LexAdvance(lx)) ELSE lx

\* Lexer::AddIdentifierToken
AddIdentifierToken(lx) ==
  LET lx1 == SkipIdentifier(lx)
      identifier == SubSeq(lx1.source, lx1.start, lx1.curr - 1)
      it == {k \in DOMAIN kKeywordTokens : kKeywordTokens[k].lexeme = identifier}
  IN AddToken(lx1, IF it # {} THEN kKeywordTokens[CHOOSE k \in it : TRUE].type
                   ELSE "Identifier")

\* an extraction that adds a token and consumes nothing
ExtractWithoutAdvance(lx) == AddToken([lx EXCEPT !.start = lx.curr], "Invalid")

\* Lexer::ExtractToken
ExtractToken(lx) ==
  LET ch == lx.source[lx.curr]
      lx1 == LexAdvance([lx EXCEPT !.start = lx.curr])
  IN CASE ch = "[" -> AddToken(lx1, "OpenBracket")
       [] ch = "]" -> AddToken(lx1, "CloseBracket")
       [] ch = "{" -> AddToken(lx1, "OpenBrace")
       [] ch = "}" -> AddToken(lx1, "CloseBrace")
       [] ch = "(" -> AddToken(lx1, "OpenParen")
       [] ch = ")" -> AddToken(lx1, "CloseParen")
       [] ch = ";" -> AddToken(lx1, "EndStatement")
       [] ch = "+" -> AddToken(lx1, "Plus")
       [] ch = "-" -> AddToken(lx1, "Minus")
       [] ch = "*" -> AddToken(lx1, "Multiply")
       [] ch = "%" -> AddToken(lx1, "Modulus")
       [] ch = "," -> AddToken(lx1, "Comma")
       [] ch = "." -> AddToken(lx1, "Dot")
       [] ch = "!" -> AddEither(lx1, "=", "NotEqual", "Not")
       [] ch = "=" -> AddEither(lx1, "=", "IsEqual", "Assign")
       [] ch = "<" -> AddEither(lx1, "=", "LessThanEqual", "LessThan")
       [] ch = ">" -> AddEither(lx1, "=", "GreaterThanEqual", "GreaterThan")
       [] ch = "/" -> IF ~IsAtEnd(lx1) /\ lx1.source[lx1.curr] = "/"
                        THEN SkipComment(LexAdvance(lx1))
                        ELSE AddToken(lx1, "Divide")
       [] ch \in {" ", "\r", "\t"} -> lx1
       [] ch = NewLine -> [lx1 EXCEPT !.line = @ + 1]
       [] ch \in {DoubleQuote, Quote} -> AddStringToken(lx1, ch)
       [] OTHER ->
            IF IsDigit(ch) THEN AddNumberToken(lx1)
            ELSE IF IsAlpha(ch) \/ ch = "_" THEN AddIdentifierToken(lx1)
            ELSE [lx1 EXCEPT !.err = "Unexpected character"]

\* the sources of n characters
SourcesOfLength(n) == [1..n -> Alphabet]

\* a Lexer constructed on a source, ExtractTokens called : tokens_.clear(),
\* start_ = curr_ = source_.begin()
InitLexer ==
  /\ phase = "lexing"
  /\ \E n \in 0..MaxSource : \E source \in SourcesOfLength(n) : comp = NewLexer(source)
  /\ main = NoFunction
  /\ frames = <<>>
  /\ stack = <<>>
  /\ names = <<>>
  /\ globals = NativeGlobals
  /\ output = ""
  /\ result = NoResult
  /\ prog = 0
  /\ runs = 0
  /\ hist = HistInit

\* Lexer::ExtractTokens : one iteration of  while( !IsAtEnd() ) ExtractToken() ;
\* a CompilerError leaves ExtractTokens
ExtractTokensStep ==
  /\ phase = "lexing"
  /\ ~IsAtEnd(comp)
  /\ comp' = ExtractToken(comp)
  /\ phase' = IF comp'.err # "" THEN "lex error" ELSE "lexing"
  /\ UNCHANGED <<main, frames, stack, names, globals, output, result, prog, runs, hist>>

\* Lexer::ExtractTokens : the loop ends, start_ = curr_ = source_.end(),
\* AddToken( EndOfFile )
ExtractTokensEnd ==
  /\ phase = "lexing"
  /\ IsAtEnd(comp)
  /\ comp' = AddToken([comp EXCEPT !.start = Len(comp.source) + 1,
                                   !.curr = Len(comp.source) + 1], "EndOfFile")
  /\ phase' = "lexed"
  /\ UNCHANGED <<main, frames, stack, names, globals, output, result, prog, runs, hist>>

NextLexer == ExtractTokensStep \/ ExtractTokensEnd

SpecLexer == InitLexer /\ [][NextLexer]_vars

EndOfFileTokens(tokens) == {k \in DOMAIN tokens : tokens[k].type = "EndOfFile"}

\* every call of ExtractToken moves curr_ forward, and not past the end
C26_Consumes ==
  (phase = "lexing" /\ ~IsAtEnd(comp)) =>
     /\ comp'.curr > comp.curr
     /\ comp'.curr <= Len(comp.source) + 1
     /\ comp'.source = comp.source

C26_TokenList ==
  /\ phase \in {"lexing", "lex error", "lexed"}
  /\ phase = "lex error" <=> comp.err # ""
  /\ phase # "lexed" => EndOfFileTokens(comp.tokens) = {}
  /\ phase = "lexed" => EndOfFileTokens(comp.tokens) = {Len(comp.tokens)}

\* C26: ExtractTokens terminates on every source, each extraction consuming at
\* least one of its finitely many characters, and ends either in a lex error
\* or with a token list whose last token, and no other, is EndOfFile.
C26_ExtractTokensEnds == [][C26_Consumes]_vars /\ []C26_TokenList

\* or=1 has been read as Or, Assign, Number, EndOfFile
C26_Witness ==
  /\ phase = "lexed"
  /\ comp.source = <<"o", "r", "=", "1">>
  /\ comp.tokens = <<Tok("Or", <<"o", "r">>), Tok("Assign", <<"=">>),
                     Tok("Number", <<"1">>), Tok("EndOfFile", <<>>)>>

\* the extraction at hand starts at a quote character
AtQuote == phase = "lexing" /\ ~IsAtEnd(comp) /\ comp.source[comp.curr] \in {Quote, DoubleQuote}
\* position of the next occurrence of the opening quote, or 0
ClosingQuote == IndexOf(comp.source, comp.source[comp.curr], comp.curr + 1)

C27_StringStep ==
  AtQuote =>
    IF ClosingQuote = 0
      THEN /\ phase' = "lex error"
           /\ comp'.err = "Unterminated string"
           /\ comp'.tokens = comp.tokens
      ELSE /\ phase' = "lexing"
           /\ comp'.tokens =
                Append(comp.tokens,
                       Tok("String", SubSeq(comp.source, comp.curr + 1, ClosingQuote - 1)))
           /\ comp'.curr = ClosingQuote + 1

\* C27: a string literal runs from its opening quote to the next occurrence of
\* the same quote character; its lexeme is what lies strictly between the two,
\* scanning goes on after the closing quote, and a source that ends before the
\* closing quote gives the unterminated-string error and no String token.
C27_StringLiteral == [][C27_StringStep]_vars

\* '"'1 has been read as the string of one double quote, then the number 1
C27_Witness ==
  /\ phase = "lexed"
  /\ comp.source = <<Quote, DoubleQuote, Quote, "1">>
  /\ comp.tokens = <<Tok("String", <<DoubleQuote>>), Tok("Number", <<"1">>),
                     Tok("EndOfFile", <<>>)>>

RECURSIVE UpvalueOperands(_, _)
\* the operands of the GetUpvalue and SetUpvalue instructions of a block from
\* offset i on
UpvalueOperands(block, i) ==
  IF i >= Len(block.code) THEN {}
  ELSE LET op == block.code[i + 1]
           n == IF op = OpClosure
                  THEN 1 + 2 * block.constants[block.code[i + 2] + 1].c.func.upvalueCount
                  ELSE OperandBytes(op)
       IN (IF op \in {OpGetUpvalue, OpSetUpvalue} THEN {block.code[i + 2]} ELSE {})
             \cup UpvalueOperands(block, i + 1 + n)

\* the functions of the Closure constants of the compiled blocks
ClosureConstants(block) ==
  {block.constants[k].c.func :
     k \in {j \in DOMAIN block.constants : block.constants[j].t = "Closure"}}
Prototypes == UNION {ClosureConstants(comp.blocks[b]) : b \in DOMAIN comp.blocks}

\* C28: a captured variable resolved more than once in a function has one
\* upvalue descriptor, and each resolution gives the position of that
\* descriptor: every GetUpvalue and SetUpvalue operand of a compiled function
\* is less than the function's upvalue count.
C28_UpvalueOperandsInRange ==
  (phase = "compiled" /\ ~hist.compileFailed) =>
     \A fn \in Prototypes :
        \A u \in UpvalueOperands(comp.blocks[fn.block], 0) : u < fn.upvalueCount

\* the Closure instructions FunctionCall emitted carry one operand pair per
\* upvalue of the function in their constant
C29_PairsMatch ==
  \A e \in comp.closureLog :
    LET block == comp.blocks[e.block]
        constant == block.constants[block.code[e.at + 2] + 1]
    IN /\ block.code[e.at + 1] = OpClosure
       /\ constant.t = "Closure"
       /\ e.next - (e.at + 2) = 2 * constant.c.func.upvalueCount

\* a Closure instruction that pushes its closure leaves the ip where the
\* compiler ended the instruction
C29_ClosureStep ==
  (Executes(OpClosure) /\ phase' = "running") =>
     /\ Len(frames') = Len(frames)
     /\ \E e \in comp.closureLog :
          /\ e.block = Frame.closure.func.block
          /\ e.at = Frame.ip
          /\ frames'[Len(frames)].ip = e.next

\* C29: after  Closure k  the compiler emits as many (is_local, index) pairs
\* as the upvalue count of the function in constant k, which is the count the
\* virtual machine decodes with: executing Closure leaves the ip at the opcode
\* of the next instruction.
C29_ClosureOperands == []C29_PairsMatch /\ [][C29_ClosureStep]_vars

\* the Closure of set, which captures two locals of mk, has just been executed
C29_Witness ==
  /\ phase = "running"
  /\ prog = ProgramOf(SrcSetGet)
  /\ hist.last.op = OpClosure
  /\ Peek(0).t = "Closure"
  /\ Peek(0).c.func.name = "set"
  /\ Peek(0).c.func.upvalueCount = 2
  /\ \E e \in comp.closureLog :
       /\ e.block = Frame.closure.func.block
       /\ e.next = Frame.ip
       /\ e.next = e.at + 6

\* C30: a function declared in a block can call itself: f(2) goes down to
\* f(0) through the closure of f that f itself refers to, and 0 is printed.
C30_LocalRecursion ==
  Finished(SrcLocalRecursion) =>
    /\ phase = "idle"
    /\ result = [kind |-> "value", v |-> BoolV(TRUE)]
    /\ output = "0"

\* the Closure instruction of f captures slot 1 of the script's frame, in
\* which the closure of f is not yet: only slot 0 is on the stack
C30_CaptureBeforePush ==
  (/\ phase = "running"
   /\ prog = ProgramOf(SrcLocalRecursion)
   /\ hist.dispatched = 0) =>
     /\ GetByte(0) = OpClosure
     /\ GetConstant(GetByte(1)).c.func.name = "f"
     /\ GetByte(2) = 1
     /\ GetByte(3) = 1
     /\ Len(stack) = 1

\* the heights of the value stack above the frame's slot zero that were
\* observed when the instruction at offset ip of a block was dispatched
HeightsAt(block, ip) ==
  {h.height : h \in {g \in hist.heights : g.block = block /\ g.ip = ip}}

\* C31, the steps: the JumpIfFalse of an if statement leaves the condition
\* value on the stack and goes to the Pop that begins the then arm when the
\* value is truthy and to the Pop that begins the else path otherwise, and
\* the Jump that ends the then arm goes to the end of the statement.
C31_IfStep ==
  \A r \in comp.ifLog :
     /\ (Dispatched(OpJumpIfFalse) /\ At(r, r.test))
          => /\ NextIP = (IF IsTrue(Peek(0)) THEN r.test + 3 ELSE r.jump + 3)
             /\ stack' = stack
     /\ (Dispatched(OpJump) /\ At(r, r.jump)) => NextIP = r.end

\* C31, the code and the stack: each path begins with one Pop, without an
\* else the falsy path holds nothing but that Pop, and with h values on the
\* stack before the condition there are h + 1 at the test and at either Pop
\* and h at the start of either arm and after the statement.
C31_IfBalance ==
  \A r \in comp.ifLog :
     LET code == comp.blocks[r.block].code
         Holds(ip, n) == HeightsAt(r.block, ip) \subseteq {n}
     IN /\ code[r.test + 1] = OpJumpIfFalse
        /\ code[r.test + 4] = OpPop
        /\ code[r.jump + 1] = OpJump
        /\ code[r.jump + 4] = OpPop
        /\ r.jump + 4 <= r.end
        /\ ~r.hasElse => r.end = r.jump + 4
        /\ \A h \in HeightsAt(r.block, r.start) :
              /\ Holds(r.test, h + 1)
              /\ Holds(r.test + 3, h + 1)
              /\ Holds(r.test + 4, h)
              /\ Holds(r.jump, h)
              /\ Holds(r.jump + 3, h + 1)
              /\ Holds(r.end, h)

StaysIn(r) ==
  /\ hist'.dispatched = hist.dispatched + 1
  /\ hist'.last.block = r.block
  /\ Len(frames') = hist'.last.depth
  /\ phase' = "running"

\* C32, the steps of a for statement: the JumpIfFalse of the condition goes on
\* to the body when the value is truthy and leaves the loop otherwise; the
\* increment is entered only by the Loop that ends the body and is left only
\* by its own Loop, which goes to the condition; the body is entered only at
\* its first byte, from the condition (from the initializer when the loop has
\* neither condition nor increment).
C32_ForStep ==
  \A r \in comp.forLog :
     LET from == hist'.last.ip
         InIncrement(ip) == r.hasIncrement /\ r.incr <= ip /\ ip < r.body
         InBody(ip) == r.body <= ip /\ ip <= r.bodyLoop
     IN /\ (Dispatched(OpJumpIfFalse) /\ At(r, r.test) /\ r.hasCondition)
             => /\ NextIP = (IF IsTrue(Peek(0)) THEN r.test + 3 ELSE r.bodyLoop + 3)
                /\ stack' = stack
        /\ (Dispatched(OpLoop) /\ At(r, r.bodyLoop)) => NextIP = r.incr
        /\ (Dispatched(OpLoop) /\ At(r, r.body - 3) /\ r.hasIncrement)
             => NextIP = r.cond
        /\ (StaysIn(r) /\ InIncrement(NextIP) /\ ~InIncrement(from))
             => from = r.bodyLoop /\ NextIP = r.incr
        /\ (StaysIn(r) /\ InIncrement(from) /\ ~InIncrement(NextIP))
             => from = r.body - 3 /\ NextIP = r.cond
        /\ (StaysIn(r) /\ InBody(NextIP) /\ ~InBody(from))
             => /\ NextIP = r.body
                /\ ~InIncrement(from)
                /\ from < r.body
                /\ (r.hasCondition \/ r.hasIncrement) => r.cond <= from

\* C32, the stack: with h values on the stack before the initializer and v
\* locals declared by it, there are h + v at the condition, the increment,
\* the body and the Loop that ends it, h + v + 1 at the test and at the Pop
\* of either path, and h after the statement.
C32_ForBalance ==
  \A r \in comp.forLog :
     LET v == r.end - r.exit
         Holds(ip, n) == HeightsAt(r.block, ip) \subseteq {n}
     IN \A h \in HeightsAt(r.block, r.init) :
           /\ Holds(r.cond, h + v)
           /\ Holds(r.incr, h + v)
           /\ Holds(r.body, h + v)
           /\ Holds(r.bodyLoop, h + v)
           /\ r.hasCondition => /\ Holds(r.test, h + v + 1)
                                /\ Holds(r.test + 3, h + v + 1)
                                /\ Holds(r.bodyLoop + 3, h + v + 1)
           /\ Holds(r.exit, h + v)
           /\ Holds(r.end, h)

C33_OperandStep ==
  \A r \in comp.circuitLog :
     /\ (Dispatched(OpJumpIfFalse) /\ At(r, r.test))
          => /\ stack' = stack
             /\ r.kind = "and" =>
                  NextIP = (IF IsTrue(Peek(0)) THEN r.from ELSE r.to)
             /\ r.kind = "or" =>
                  NextIP = (IF IsTrue(Peek(0)) THEN r.skip ELSE r.from)
     /\ (Dispatched(OpJump) /\ At(r, r.skip) /\ r.kind = "or")
          => stack' = stack /\ NextIP = r.to

\* C33, the stack: the code of b begins with the Pop of a, and with h values
\* on the stack at the test (a on top) there are h - 1 when the code of b
\* begins and h after the expression on either path.
C33_OperandBalance ==
  \A r \in comp.circuitLog :
     LET code == comp.blocks[r.block].code
         Holds(ip, n) == HeightsAt(r.block, ip) \subseteq {n}
     IN /\ code[r.test + 1] = OpJumpIfFalse
        /\ code[r.from + 1] = OpPop
        /\ r.from < r.to
        /\ \A h \in HeightsAt(r.block, r.test) :
              /\ Holds(r.from, h)
              /\ Holds(r.from + 1, h - 1)
              /\ Holds(r.to, h)

PositionsOf(name, seq) == {k \in DOMAIN seq : seq[k] = name}

\* C34, one resolved name: a name among the locals of the current function
\* is a GetLocal/SetLocal of the slot of the most recently declared local of
\* that name; otherwise a name among the locals of an enclosing function is
\* an upvalue access; otherwise the name is a global, looked up by its name.
ResolvedInnermost(r) ==
  LET own == PositionsOf(r.name, r.own)
  IN CASE own # {} ->
            /\ r.op = OpGetLocal
            /\ \A k \in own : k - 1 <= r.index
            /\ r.index + 1 \in own
       [] ~r.script /\ r.name \in r.outer -> r.op = OpGetUpvalue
       [] OTHER -> r.op = OpGetGlobal /\ r.key = StrV(r.name)

\* C34: every name the compiler resolves is resolved to its innermost
\* binding: a local of the current function before a local of an enclosing
\* function before a global; the shadowing program prints 2, 3, 2, 1.
C34_InnermostBinding ==
  /\ \A r \in comp.resolveLog : ResolvedInnermost(r)
  /\ Finished(SrcShadow) => output = "2\n3\n2\n1"

\* the shadowing program has run: x was resolved as the second of two locals
\* named x, as a local of the enclosing function while a global x exists, and
\* as a global
C34_Witness ==
  /\ Finished(SrcShadow)
  /\ result.kind = "value"
  /\ output = "2\n3\n2\n1"
  /\ \E r \in comp.resolveLog :
        r.name = "x" /\ r.op = OpGetLocal /\ r.index = 3 /\ PositionsOf("x", r.own) = {2, 4}
  /\ \E r \in comp.resolveLog :
        r.name = "x" /\ r.op = OpGetUpvalue /\ PositionsOf("x", r.own) = {}
  /\ \E r \in comp.resolveLog : r.name = "x" /\ r.op = OpGetGlobal /\ r.script

\* C35, the step: a SetUpvalue changes no slot of the value stack: the stack, on
\* whose top the stored value lies, and its names are the same before and
\* after, in every frame, and no frame is pushed or popped.
C35_SetUpvalueStep ==
  Dispatched(OpSetUpvalue)
     => /\ stack' = stack
        /\ names' = names
        /\ Len(frames') = Len(frames)
        /\ hist'.last.top = Cell(stack'[Len(stack')])

\* C35: SetUpvalue never modifies a slot of the value stack; the local the
\* upvalue was captured from keeps its value and the stored value stays on top.
C35_SetUpvalueKeepsStack == [][C35_SetUpvalueStep]_vars

\* inner() of the shared-upwards program has executed  x = 5  while the frame
\* of mk, whose local x the upvalue goes back to, is on the frame stack: x is
\* still 1 in its slot and 5 is on top of the stack
C35_Witness ==
  /\ prog = ProgramOf(SrcSharedUpwards)
  /\ hist.last.op = OpSetUpvalue
  /\ Len(frames) = 4
  /\ frames[2].closure.func.name = "mk"
  /\ stack[frames[2].slots + 2] = IntV(1)
  /\ Peek(0) = IntV(5)

RECURSIVE JoinLines(_)
\* the strings of a sequence with one newline between neighbours
JoinLines(lines) ==
  IF lines = <<>> THEN ""
  ELSE IF Len(lines) = 1 THEN lines[1]
  ELSE JoinLines(SubSeq(lines, 1, Len(lines) - 1)) \o "\n" \o lines[Len(lines)]

\* C36: after n Prints the output log is the n formatted values in execution
\* order with exactly n - 1 newlines between them, whatever the values are,
\* the empty string included.
C36_PrintLog == output = JoinLines(hist.printed)

\* what holds of Print: each Print pops one value, and the log is the log
\* before, a newline unless that log was empty, and the formatted value
C36_PrintStep ==
  Dispatched(OpPrint)
     => /\ stack' = Pop(stack)
        /\ output' = (IF output = "" THEN "" ELSE output \o "\n")
                        \o ValueToString(Peek(0))

C36_PrintAppends == [][C36_PrintStep]_vars

\* the empty string was printed first and "a" second: the log is "a"
C36_EmptyLineLost ==
  /\ prog = ProgramOf(SrcPrintEmpty)
  /\ hist.printed = <<"", "a">>
  /\ output = "a"

\* C37: whenever the instruction at a statement boundary is dispatched in a
\* frame of the running Interpret call, the number of values on the stack
\* from the frame's slot zero upwards is the number of locals the compiler
\* counted at that boundary, so that the local declared as the n-th lies n
\* slots above slot zero.
C37_StackMatchesLocals ==
  \A b \in comp.boundaryLog :
     \A h \in hist.heights :
        (h.block = b.block /\ h.ip = b.offset /\ ~h.left) => h.height = b.locals

\* the shadowing program has run: inside f, a boundary with three locals
\* beside slot zero (x, g and the x of the inner block) and the boundary
\* after that block, with two, were passed with as many values on the stack
C37_Witness ==
  /\ Finished(SrcShadow)
  /\ result.kind = "value"
  /\ \E b3, b2 \in comp.boundaryLog :
        /\ b3.block = b2.block
        /\ comp.blocks[b3.block].code # comp.blocks[main.block].code
        /\ b3.offset < b2.offset
        /\ b3.locals = 4 /\ HeightsAt(b3.block, b3.offset) = {4}
        /\ b2.locals = 3 /\ HeightsAt(b2.block, b2.offset) = {3}

\* C38: after every executed instruction names_ is as long as stack_.
C38_NamesMirrorStack == hist.dispatched > 0 => Len(names) = Len(stack)

\* the root Return of the if program has been executed: stack_ is empty and
\* names_ still holds the name pushed with main
C38_RootReturnLeavesName ==
  /\ Finished(SrcIf)
  /\ result.kind = "value"
  /\ hist.last.op = OpReturn
  /\ stack = <<>>
  /\ names = <<"fn main">>

\* square(9) of the operators program has been called: the callee and its
\* argument left stack_ and their names stayed on names_
C38_NativeCallLeavesNames ==
  /\ prog = ProgramOf(SrcOperators)
  /\ phase = "running"
  /\ hist.last.op = OpCall
  /\ Peek(0) = IntV(81)
  /\ Len(names) = Len(stack) + 2

\* C39: when an Interpret call has ended in a runtime error, frames_ and
\* stack_ are empty.
C39_ErrorLeavesMachineEmpty ==
  (phase = "idle" /\ runs > 0 /\ result.kind = "error")
     => frames = <<>> /\ stack = <<>>

\* print "a"; print nope;  has thrown at GetGlobal: the frame of main and the
\* closure of main are still there
C39_FrameLeftBehind ==
  /\ Finished(SrcRuntimeError)
  /\ result.kind = "error"
  /\ hist.last.op = OpGetGlobal
  /\ Len(frames) = 1
  /\ Len(stack) = 1

\* with a second Interpret on the same machine: the Return of the second
\* main found two frames and went on in the frame the failed run left
C39_ReturnIntoLeftoverFrame ==
  /\ runs = 2
  /\ hist.frames0 = 1
  /\ hist.last.op = OpReturn
  /\ hist.last.depth = 2
  /\ Len(frames) = 1
  /\ phase # "idle"

\* Compile has returned or has reached its catch handler
CompileFinished == runs > 0 /\ (hist.compileFailed \/ phase = "compiled")

\* C40: whenever Compile finishes, with or without a compile error,
\* compStack_ holds the root script context alone and the function reported
\* is the root's.
C40_OnlyRootContextRemains ==
  CompileFinished
     => /\ Len(comp.compStack) = 1
        /\ GetC(comp).functionType = "Script"
        /\ phase = "compiled" => main.block = GetC(comp).function.block

\* what holds: a compilation without error, and one whose error was thrown
\* outside a function body, ends with the root context alone
C40_RootAloneUnlessNested ==
  (CompileFinished /\ (Ok(comp) \/ phase = "compiled"))
     => /\ Len(comp.compStack) = 1
        /\ GetC(comp).functionType = "Script"
        /\ main.block = GetC(comp).function.block

\* fun f() { print 2; print ; }  threw inside the body of f: the catch handler
\* of Compile runs with the context of f still on top of compStack_
C40_AbandonedContextRemains ==
  /\ prog = ProgramOf(SrcNestedCompileError)
  /\ hist.compileFailed
  /\ Len(comp.compStack) = 2
  /\ GetC(comp).functionType = "Function"
  /\ GetC(comp).function.name = "f"
  /\ phase \in UBOutcomes
====
